---- MODULE Spec2Model ----
(***************************************************************************)
(* Model of the feed / grading / stats core of backend/server.py.          *)
(*                                                                         *)
(* The MongoDB collections are the state: users, user_progress, playables. *)
(* Every request handler is a coroutine that can be suspended at each      *)
(* `await db...` call, so a handler is modelled as a sequence of steps,    *)
(* one per store call that reads or writes state another handler can       *)
(* change; `req` holds each in-flight request's locals and position.       *)
(***************************************************************************)
EXTENDS Integers, Sequences, FiniteSets, Bags, TLC

\* ---------------------------------------------------------------- bounds
MaxRecords == 2      \* progress records kept per user before inserts stop
MaxPlayed  == 2      \* a grading starts only while total_played < MaxPlayed
MaxPlayedConcurrent == 2   \* the same, when two requests can be in flight
MaxSkipped == 1      \* a skip starts only while skipped < MaxSkipped
MaxLimit   == 2      \* largest `limit` query parameter tried on the feed
MaxHintNumber == 3   \* largest hint_number a client sends
MaxLateHintNumber == 6   \* the same, in the runs on feedback messages
MaxAdded == 1        \* playables admin_add_playable adds before it stops
MaxSessions == 2     \* session documents stored before logins stop
MaxNow == 2          \* the clock stops here (units of 180 days)
MaxRecordsEach == 1  \* records per user in the runs with two users
MaxCategories == 3   \* category documents stored before additions stop

Users == {"u1"}       \* the users registered in db.users

\* ------------------------------------------------------- strings as data
\* A Python str is modelled as a sequence of one-character strings.
Whitespace == {" ", "\t"}

LowerChar(c) ==
    CASE c = "A" -> "a"
      [] c = "P" -> "p"
      [] c = "Q" -> "q"
      [] c = "X" -> "x"
      [] OTHER -> c

\* str.lower()
Lower(s) == [i \in 1..Len(s) |-> LowerChar(s[i])]

RECURSIVE LStrip(_)
LStrip(s) == IF s # <<>> /\ Head(s) \in Whitespace THEN LStrip(Tail(s)) ELSE s

RECURSIVE RStrip(_)
RStrip(s) ==
    IF s # <<>> /\ s[Len(s)] \in Whitespace
    THEN RStrip(SubSeq(s, 1, Len(s) - 1))
    ELSE s

\* str.strip()
Strip(s) == RStrip(LStrip(s))

\* x.strip().lower()
Normalize(s) == Lower(Strip(s))

\* ------------------------------------------------------------- playables
CURATED_PLAYABLE_IDS ==
    << "play_fbf745c05db8", "play_9c2d0aedae90", "play_79d9fe88f784",
       "play_1fdb01350d05", "play_87f944dcfcb1", "play_520619533384",
       "play_9ddad6ff412e", "play_3db9f04a1b9b", "play_ae527aa40493",
       "play_8b45d1dfbb71" >>

CuratedSet == {CURATED_PLAYABLE_IDS[i] : i \in 1..Len(CURATED_PLAYABLE_IDS)}

\* The documents of the playables collection the model starts with: two
\* curated ids and one id outside the curated list.
SeedPlayables ==
    [pid \in {"play_fbf745c05db8", "play_9ddad6ff412e", "play_000000000001"} |->
        CASE pid = "play_fbf745c05db8" ->
                [type |-> "text", category |-> "BOLLYWOOD",
                 correct_answer |-> <<"P", "a">>,
                 alternate_answers |-> << <<"p", "x">> >>,
                 hints |-> <<>>]
          [] pid = "play_9ddad6ff412e" ->
                [type |-> "guess_the_x", category |-> "CRICKET",
                 correct_answer |-> <<"X">>,
                 alternate_answers |-> <<>>,
                 hints |-> <<"h1", "h2", "h3">>]
          [] OTHER ->
                [type |-> "chess_mate_in_2", category |-> "CHESS",
                 correct_answer |-> <<"q">>,
                 alternate_answers |-> <<>>,
                 hints |-> <<>>]]

\* playable_id values a client sends: the stored ones and one unknown id
RequestIds == DOMAIN SeedPlayables \cup {"play_missing"}

\* answers a client sends
Submissions ==
    { <<" ", "P", "A", " ">>, <<"p", "x">>, <<"X">>, <<"q">>, <<" ">> }

VARIABLES
    users,          \* db.users: user_id -> counters and onboarding state
    progress,       \* db.user_progress: bag of Progress Records
    playables,      \* db.playables: playable_id -> document
    req,            \* per slot: the request being handled, its locals, its pc
    response,       \* the HTTP response returned last, with its request
    ever_recorded,  \* history: (user, playable) pairs ever inserted
    sessions,       \* db.user_sessions: bag of session documents
    now,            \* datetime.now(timezone.utc), in units of 180 days
    category_docs,  \* db.categories: the names of the category documents
    authorization   \* history: the Authorization header presented last

vars == <<users, progress, playables, req, response, ever_recorded,
          sessions, now, category_docs, authorization>>

\* What the handlers of playables, progress and stats leave alone.
sessions_and_categories == <<sessions, now, category_docs, authorization>>

\* ------------------------------------------------------------ documents
\* A user document as dev_login / exchange_session insert it.  The stored
\* document has no `skipped` field until the first $inc creates it; an absent
\* field and 0 are the same to $inc, so skipped = 0 stands for "absent".
\* selected_categories = <<>> stands for None: select_categories never
\* stores a list shorter than 3.
NewUser ==
    [total_played |-> 0, correct_answers |-> 0, current_streak |-> 0,
     best_streak |-> 0, skipped |-> 0,
     selected_categories |-> <<>>, onboarding_complete |-> FALSE]

\* The four counters a grading reads and writes back.
Stats(doc) ==
    [total_played |-> doc.total_played, correct_answers |-> doc.correct_answers,
     current_streak |-> doc.current_streak, best_streak |-> doc.best_streak]

NoStats ==
    [total_played |-> 0, correct_answers |-> 0, current_streak |-> 0,
     best_streak |-> 0]

Max(a, b) == IF a >= b THEN a ELSE b
Min(a, b) == IF a <= b THEN a ELSE b

\* C7 mutant: a correct answer does not raise best_streak
NewStatsKeepingBest(user_doc, is_correct) ==
    [total_played |-> user_doc.total_played + 1,
     correct_answers |-> user_doc.correct_answers + (IF is_correct THEN 1 ELSE 0),
     current_streak |-> IF is_correct THEN user_doc.current_streak + 1 ELSE 0,
     best_streak |-> user_doc.best_streak]

\* C9 mutant: an incorrect answer does not reset current_streak
NewStatsKeepingStreak(user_doc, is_correct) ==
    [total_played |-> user_doc.total_played + 1,
     correct_answers |-> user_doc.correct_answers + (IF is_correct THEN 1 ELSE 0),
     current_streak |-> IF is_correct THEN user_doc.current_streak + 1
                        ELSE user_doc.current_streak,
     best_streak |-> IF is_correct
                     THEN Max(user_doc.best_streak, user_doc.current_streak + 1)
                     ELSE user_doc.best_streak]

\* new_total_played, new_correct_answers, new_current_streak and
\* new_best_streak computed from the user_doc a grading has read.
NewStats(user_doc, is_correct) ==
    [total_played    |-> user_doc.total_played + 1,
     correct_answers |-> user_doc.correct_answers + (IF is_correct THEN 1 ELSE 0),
     current_streak  |-> IF is_correct THEN user_doc.current_streak + 1 ELSE 0,
     best_streak     |-> IF is_correct
                         THEN Max(user_doc.best_streak, user_doc.current_streak + 1)
                         ELSE user_doc.best_streak]

\* db.users.update_one({"user_id": u}, {"$set": stats})
SetStats(us, u, stats) ==
    [us EXCEPT ![u].total_played    = stats.total_played,
               ![u].correct_answers = stats.correct_answers,
               ![u].current_streak  = stats.current_streak,
               ![u].best_streak     = stats.best_streak]

\* ------------------------------------------------------ progress ledger
\* db.user_progress.insert_one(rec)
InsertProgress(ledger, rec) == ledger (+) SetToBag({rec})

RecordsOf(u) == {rec \in BagToSet(progress) : rec.user_id = u}

\* number of documents of user u in db.user_progress
RecordCount(u) ==
    LET S == RecordsOf(u)
        RECURSIVE Sum(_)
        Sum(T) == IF T = {} THEN 0
                  ELSE LET x == CHOOSE y \in T : TRUE
                       IN CopiesIn(x, progress) + Sum(T \ {x})
    IN Sum(S)

\* C31 mutant: the deletion has no filter on user_id
DeleteProgressOfAll(ledger, u) == EmptyBag

\* db.user_progress.delete_many({"user_id": u})
DeleteProgressOf(ledger, u) ==
    LET keep == {rec \in BagToSet(ledger) : rec.user_id # u}
    IN [rec \in keep |-> ledger[rec]]

\* played_ids of get_playables_feed
PlayedIds(u) == {rec.playable_id : rec \in RecordsOf(u)}

HasRecord(u, pid) == pid \in PlayedIds(u)

\* The progress documents the three grading handlers and skip build.  The
\* documents are given one shape: skipped = FALSE, hints_used = 0 and
\* moves_used = 0 stand for a field the handler does not write (a stored
\* hint_number or moves_used of 0 is not among the inputs tried).
AnswerRecord(u, pid, is_correct) ==
    [user_id |-> u, playable_id |-> pid, answered |-> TRUE,
     correct |-> is_correct, skipped |-> FALSE, hints_used |-> 0, moves_used |-> 0]

\* C12 mutant: the record of a guess does not keep hint_number
GuessRecordWithoutHints(u, pid, is_correct, hint_number) ==
    [user_id |-> u, playable_id |-> pid, answered |-> TRUE,
     correct |-> is_correct, skipped |-> FALSE, hints_used |-> 0,
     moves_used |-> 0]

GuessRecord(u, pid, is_correct, hint_number) ==
    [user_id |-> u, playable_id |-> pid, answered |-> TRUE,
     correct |-> is_correct, skipped |-> FALSE, hints_used |-> hint_number,
     moves_used |-> 0]

\* C28 mutant: solved counts only with the two moves of the solution
ChessRecordChecked(u, pid, is_correct, moves_used) ==
    [user_id |-> u, playable_id |-> pid, answered |-> TRUE,
     correct |-> is_correct /\ moves_used = 2, skipped |-> FALSE,
     hints_used |-> 0, moves_used |-> moves_used]

ChessRecord(u, pid, is_correct, moves_used) ==
    [user_id |-> u, playable_id |-> pid, answered |-> TRUE,
     correct |-> is_correct, skipped |-> FALSE, hints_used |-> 0,
     moves_used |-> moves_used]

SkipRecord(u, pid) ==
    [user_id |-> u, playable_id |-> pid, answered |-> FALSE,
     correct |-> FALSE, skipped |-> TRUE, hints_used |-> 0, moves_used |-> 0]

\* C15 mutant: the alternates are compared with the submission as sent
CheckAnswerRawAlternates(playable, answer) ==
    \/ Normalize(answer) = Normalize(playable.correct_answer)
    \/ /\ playable.alternate_answers # <<>>
       /\ \E i \in 1..Len(playable.alternate_answers) :
              answer = Normalize(playable.alternate_answers[i])

\* -------------------------------------------------------------- grading
\* is_correct of submit_answer and submit_guess_answer: the submission
\* against correct_answer, then against each alternate answer.
CheckAnswer(playable, answer) ==
    \/ Normalize(answer) = Normalize(playable.correct_answer)
    \/ /\ playable.alternate_answers # <<>>
       /\ \E i \in 1..Len(playable.alternate_answers) :
              Normalize(answer) = Normalize(playable.alternate_answers[i])

\* ----------------------------------------------------------------- feed
\* seq[:n] of Python, for any integer n
PySlice(seq, n) ==
    IF n >= 0 THEN SubSeq(seq, 1, Min(n, Len(seq)))
    ELSE SubSeq(seq, 1, Max(Len(seq) + n, 0))

\* [pid for pid in seq if Keep(pid)]
RECURSIVE Filter(_, _)
Filter(seq, keep) ==
    IF seq = <<>> THEN <<>>
    ELSE IF Head(seq) \in keep THEN <<Head(seq)>> \o Filter(Tail(seq), keep)
    ELSE Filter(Tail(seq), keep)

SeqRange(seq) == {seq[i] : i \in 1..Len(seq)}

\* every ordering of every k-element subset of S: what {"$sample": {"size": k}}
\* can return from a pool S holding at least k documents
RECURSIVE Samples(_, _)
Samples(S, k) ==
    IF k = 0 \/ S = {} THEN {<<>>}
    ELSE UNION {{<<x>> \o t : t \in Samples(S \ {x}, k - 1)} : x \in S}

\* C17 mutant: the unplayed curated ids in reverse order
UnplayedCuratedReversed(played_ids) ==
    LET ids == Filter(CURATED_PLAYABLE_IDS, CuratedSet \ played_ids)
    IN [i \in 1..Len(ids) |-> ids[Len(ids) + 1 - i]]

\* unplayed_curated_ids
UnplayedCurated(played_ids) ==
    Filter(CURATED_PLAYABLE_IDS, CuratedSet \ played_ids)

\* PHASE 1: the first `limit` unplayed curated ids that find_one finds
CuratedPhase(store, played_ids, limit) ==
    Filter(PySlice(UnplayedCurated(played_ids), limit), DOMAIN store)

\* C36 mutant: a $match stage that does not exclude CURATED_PLAYABLE_IDS
RandomPoolWithCurated(store, played_ids) ==
    {pid \in DOMAIN store : pid \notin played_ids}

\* C1 mutant: a $match stage without the "$nin": played_ids condition
RandomPoolWithPlayed(store, played_ids) ==
    {pid \in DOMAIN store : pid \notin CuratedSet}

\* PHASE 2: the documents the $match stage of random_pipeline lets through
RandomPool(store, played_ids) ==
    {pid \in DOMAIN store : pid \notin (played_ids \cup CuratedSet)}

\* every list get_playables_feed can return (as playable ids, in order)
FeedResults(store, played_ids, limit) ==
    LET result_playables == CuratedPhase(store, played_ids, limit)
    IN IF Len(result_playables) >= limit
       THEN {PySlice(result_playables, limit)}
       ELSE LET remaining_needed == limit - Len(result_playables)
                pool == RandomPool(store, played_ids)
            IN {result_playables \o t :
                    t \in Samples(pool, Min(remaining_needed, Cardinality(pool)))}

\* ------------------------------------------------------------- requests
GradingOps == {"submit_answer", "submit_guess_answer", "submit_chess_puzzle_result"}

\* hint_number and moves_used values a client sends (hint_number is 1-based)
HintNumbers == 1..MaxHintNumber
MovesUsed == {1, 2}

\* category lists a client sends to select_categories
CategoryChoices ==
    { <<"BOLLYWOOD", "CHESS", "TRIVIA">>, <<"CHESS", "TRIVIA">> }

\* Python's None where a str is expected
None == <<"None">>

\* A slot with no request in flight.
IdleReq ==
    [op |-> "none", user |-> "none", pid |-> "none", pc |-> "idle",
     is_correct |-> FALSE, user_doc |-> NoStats, had_record |-> FALSE,
     wrote |-> {}, body |-> [none |-> TRUE]]

NoResponse ==
    [op |-> "none", user |-> "none", pid |-> "none", status |-> 0,
     wrote |-> {}, body |-> [none |-> TRUE]]

\* The slots: as many requests can be in flight at the same time.
Slots == DOMAIN req

Free(r) == req[r].pc = "idle"
InFlight(r) == req[r].pc # "idle"

\* `response` of a run that does not record responses
Unobserved ==
    [op |-> "unobserved", user |-> "none", pid |-> "none", status |-> 0,
     wrote |-> {}, body |-> [none |-> TRUE]]

\* The step returns a response: its status code and JSON body, with the
\* request it answers and the store writes that request made.
Respond(op, u, pid, status, wrote, body) ==
    response' = IF response = Unobserved THEN Unobserved
                ELSE [op |-> op, user |-> u, pid |-> pid, status |-> status,
                      wrote |-> wrote, body |-> body]

\* The step returns no response.
Silent == response' = IF response = Unobserved THEN Unobserved ELSE NoResponse

\* A request that has passed its first store calls and is suspended at `pc`.
Suspended(op, u, pid, pc, is_correct, had_record, wrote, body) ==
    [op |-> op, user |-> u, pid |-> pid, pc |-> pc,
     is_correct |-> is_correct, user_doc |-> NoStats,
     had_record |-> had_record, wrote |-> wrote, body |-> body]

\* timedelta(days=180), in units of 180 days
SessionLifetime == 1

\* session_doc of dev_login and exchange_session, created at time `at`
SessionDoc(u, session_token, at) ==
    [user_id |-> u, session_token |-> session_token,
     expires_at |-> at + SessionLifetime]

\* dev_session_token of the first login of user u
FirstToken(u) == <<"dev_session", u>>

\* a request without Authorization header
NoHeader == <<"no header">>

\* db.user_sessions after the first login of each of the users
FirstSessions(us) == SetToBag({SessionDoc(u, FirstToken(u), 0) : u \in us})

\* db.categories after admin_init_categories: the categories of the seeded
\* playables
Categories == {SeedPlayables[pid].category : pid \in DOMAIN SeedPlayables}

\* The store after seeding and the first login of each user, with `slots`
\* request slots.
InitWith(slots, store, observed) ==
    /\ users = [u \in Users |-> NewUser]
    /\ progress = EmptyBag
    /\ playables = store
    /\ req = [r \in slots |-> IdleReq]
    /\ response = IF observed THEN NoResponse ELSE Unobserved
    /\ ever_recorded = {}
    /\ sessions = FirstSessions(Users)
    /\ now = 0
    /\ authorization = NoHeader
    /\ category_docs = Categories

\* One request at a time, responses recorded.
Init == InitWith({1}, SeedPlayables, TRUE)

\* A smaller store: one curated and one other playable.
SmallStore ==
    [pid \in {"play_9ddad6ff412e", "play_000000000001"} |-> SeedPlayables[pid]]

\* Two requests can be in flight at the same time.
InitConcurrent == InitWith({1, 2}, SmallStore, FALSE)

\* One request at a time over the smaller store, responses recorded.
InitFailing == InitWith({1}, SmallStore, TRUE)

\* The model's bounds; the code has no such limits.  A grading or a skip
\* starts, and reads or increments the counters, only while the user holds
\* fewer than MaxRecords records and the counter is below its bound.
PlayedBelowBound(u) ==
    users[u].total_played <
        (IF Cardinality(Slots) = 1 THEN MaxPlayed ELSE MaxPlayedConcurrent)
SkippedBelowBound(u) == users[u].skipped < MaxSkipped
MayGrade(u) == RecordCount(u) < MaxRecords /\ PlayedBelowBound(u)
MaySkip(u)  == RecordCount(u) < MaxRecords /\ SkippedBelowBound(u)

\* C24 mutant: the 404 is counted as a played playable
NotFoundCounted(r, op, u, pid) ==
    /\ pid \notin DOMAIN playables
    /\ Respond(op, u, pid, 404, {}, [detail |-> "Playable not found"])
    /\ users' = [users EXCEPT ![u].total_played = @ + 1]
    /\ UNCHANGED <<progress, playables, req, ever_recorded>>

\* raise HTTPException(status_code=404, detail="Playable not found")
NotFound(r, op, u, pid) ==
    /\ pid \notin DOMAIN playables
    /\ Respond(op, u, pid, 404, {}, [detail |-> "Playable not found"])
    /\ UNCHANGED <<users, progress, playables, req, ever_recorded>>

\* C27 mutant: the record replaces the records of the user for the playable
SaveProgressReplacing(r, op, u, pid, rec, body) ==
    /\ progress' =
           InsertProgress(
               progress (-) [old \in {x \in BagToSet(progress) :
                                         x.user_id = u /\ x.playable_id = pid}
                             |-> CopiesIn(old, progress)],
               rec)
    /\ ever_recorded' = ever_recorded \cup {<<u, pid>>}
    /\ req' = [req EXCEPT ![r] =
                  Suspended(op, u, pid, "find_user", rec.correct,
                            HasRecord(u, pid), {"progress"}, body)]
    /\ Silent /\ UNCHANGED <<users, playables>>

\* C13 mutant: the record is inserted twice
SaveProgressTwice(r, op, u, pid, rec, body) ==
    /\ progress' = InsertProgress(InsertProgress(progress, rec), rec)
    /\ ever_recorded' = ever_recorded \cup {<<u, pid>>}
    /\ req' = [req EXCEPT ![r] =
                  Suspended(op, u, pid, "find_user", rec.correct,
                            HasRecord(u, pid), {"progress"}, body)]
    /\ Silent /\ UNCHANGED <<users, playables>>

\* "Save progress": insert_one(progress), then suspend before
\* "Update user stats".
SaveProgress(r, op, u, pid, rec, body) ==
    /\ progress' = InsertProgress(progress, rec)
    /\ ever_recorded' = ever_recorded \cup {<<u, pid>>}
    /\ req' = [req EXCEPT ![r] =
                  Suspended(op, u, pid, "find_user", rec.correct,
                            HasRecord(u, pid), {"progress"}, body)]
    /\ Silent /\ UNCHANGED <<users, playables>>

\* POST /playables/{playable_id}/answer, up to the insert of the record
SubmitAnswer(r, u, pid, answer) ==
    /\ Free(r)
    /\ \/ NotFound(r, "submit_answer", u, pid)
       \/ /\ pid \in DOMAIN playables
          /\ MayGrade(u)
          /\ LET playable == playables[pid]
                 is_correct == CheckAnswer(playable, answer)
             IN SaveProgress(r, "submit_answer", u, pid,
                             AnswerRecord(u, pid, is_correct),
                             [correct_answer |-> playable.correct_answer])

feedback_messages == <<"mind reader", "sharp instincts", "know your stuff",
                       "figured it out", "better late than never">>

\* feedback_message of submit_guess_answer, for hint_number >= 1
FeedbackMessage(is_correct, hint_number) ==
    IF is_correct /\ hint_number <= Len(feedback_messages)
    THEN feedback_messages[hint_number]
    ELSE ""

\* C35 mutant: the type of the playable is not looked at
SubmitGuessAnswerAnyKind(r, u, pid, answer, hint_number) ==
    /\ Free(r)
    /\ \/ NotFound(r, "submit_guess_answer", u, pid)
       \/ /\ pid \in DOMAIN playables
          /\ MayGrade(u)
          /\ SaveProgress(r, "submit_guess_answer", u, pid,
                GuessRecord(u, pid, CheckAnswer(playables[pid], answer),
                            hint_number),
                [correct_answer |-> playables[pid].correct_answer])

\* C11 mutant: the inconclusive response reveals the answer
SubmitGuessAnswerRevealing(r, u, pid, answer, hint_number) ==
    /\ Free(r)
    /\ \/ NotFound(r, "submit_guess_answer", u, pid)
       \/ /\ pid \in DOMAIN playables
          /\ playables[pid].type # "guess_the_x"
          /\ Respond("submit_guess_answer", u, pid, 400, {},
                                  [detail |-> "only for Guess the X"])
          /\ UNCHANGED <<users, progress, playables, req, ever_recorded>>
       \/ /\ pid \in DOMAIN playables
          /\ playables[pid].type = "guess_the_x"
          /\ LET playable == playables[pid]
                 is_correct == CheckAnswer(playable, answer)
                 total_hints == Len(playable.hints)
             IN \/ /\ is_correct \/ hint_number >= total_hints
                   /\ MayGrade(u)
                   /\ SaveProgress(r, "submit_guess_answer", u, pid,
                         GuessRecord(u, pid, is_correct, hint_number),
                         [correct_answer |-> playable.correct_answer,
                          feedback_message |-> FeedbackMessage(is_correct, hint_number),
                          hints_used |-> hint_number,
                          total_hints |-> total_hints,
                          all_hints_exhausted |->
                              (hint_number >= total_hints /\ ~is_correct)])
                \/ /\ ~(is_correct \/ hint_number >= total_hints)
                   /\ Respond("submit_guess_answer", u, pid, 200, {},
                         [correct |-> FALSE,
                          correct_answer |-> playable.correct_answer,
                          feedback_message |-> "",
                          hints_used |-> hint_number,
                          total_hints |-> total_hints,
                          all_hints_exhausted |-> FALSE,
                          reveal_next_hint |-> TRUE])
                   /\ UNCHANGED <<users, progress, playables, req, ever_recorded>>

\* POST /playables/{playable_id}/guess-answer, up to the insert of the
\* record, or to the response when the guess is wrong and hints remain
SubmitGuessAnswer(r, u, pid, answer, hint_number) ==
    /\ Free(r)
    /\ \/ NotFound(r, "submit_guess_answer", u, pid)
       \/ /\ pid \in DOMAIN playables
          /\ playables[pid].type # "guess_the_x"
          /\ Respond("submit_guess_answer", u, pid, 400, {},
                                  [detail |-> "only for Guess the X"])
          /\ UNCHANGED <<users, progress, playables, req, ever_recorded>>
       \/ /\ pid \in DOMAIN playables
          /\ playables[pid].type = "guess_the_x"
          /\ LET playable == playables[pid]
                 is_correct == CheckAnswer(playable, answer)
                 total_hints == Len(playable.hints)
             IN \/ /\ is_correct \/ hint_number >= total_hints
                   /\ MayGrade(u)
                   /\ SaveProgress(r, "submit_guess_answer", u, pid,
                         GuessRecord(u, pid, is_correct, hint_number),
                         [correct_answer |-> playable.correct_answer,
                          feedback_message |-> FeedbackMessage(is_correct, hint_number),
                          hints_used |-> hint_number,
                          total_hints |-> total_hints,
                          all_hints_exhausted |->
                              (hint_number >= total_hints /\ ~is_correct)])
                \/ /\ ~(is_correct \/ hint_number >= total_hints)
                   /\ Respond("submit_guess_answer", u, pid, 200, {},
                         [correct |-> FALSE, correct_answer |-> None,
                          feedback_message |-> "",
                          hints_used |-> hint_number,
                          total_hints |-> total_hints,
                          all_hints_exhausted |-> FALSE,
                          reveal_next_hint |-> TRUE])
                   /\ UNCHANGED <<users, progress, playables, req, ever_recorded>>

\* POST /playables/{playable_id}/chess-solved, up to the insert of the record
SubmitChessPuzzleResult(r, u, pid, solved, moves_used) ==
    /\ Free(r)
    /\ \/ NotFound(r, "submit_chess_puzzle_result", u, pid)
       \/ /\ pid \in DOMAIN playables
          /\ playables[pid].type # "chess_mate_in_2"
          /\ Respond("submit_chess_puzzle_result", u, pid, 400, {},
                                  [detail |-> "chess puzzles only"])
          /\ UNCHANGED <<users, progress, playables, req, ever_recorded>>
       \/ /\ pid \in DOMAIN playables
          /\ playables[pid].type = "chess_mate_in_2"
          /\ MayGrade(u)
          /\ SaveProgress(r, "submit_chess_puzzle_result", u, pid,
                          ChessRecord(u, pid, solved, moves_used),
                          [moves_used |-> moves_used])

\* user_doc = await db.users.find_one({"user_id": ...}) of a grading
FindUser(r) ==
    /\ req[r].pc = "find_user"
    /\ PlayedBelowBound(req[r].user)
    /\ req' = [req EXCEPT ![r].user_doc = Stats(users[req[r].user]),
                          ![r].pc = "update_user"]
    /\ Silent /\ UNCHANGED <<users, progress, playables, ever_recorded>>

\* await db.users.update_one(... "$set" ...) of a grading, and its response
UpdateUser(r) ==
    /\ req[r].pc = "update_user"
    /\ LET q == req[r]
           new == NewStats(q.user_doc, q.is_correct)
       IN /\ users' = SetStats(users, q.user, new)
          /\ Respond(q.op, q.user, q.pid, 200,
                                  q.wrote \cup {"stats"},
                                  [correct |-> q.is_correct, stats |-> new,
                                   extra |-> q.body])
    /\ req' = [req EXCEPT ![r] = IdleReq]
    /\ UNCHANGED <<progress, playables, ever_recorded>>

\* POST /playables/{playable_id}/skip, up to the insert of the record
SkipPlayable(r, u, pid) ==
    /\ Free(r)
    /\ \/ NotFound(r, "skip_playable", u, pid)
       \/ /\ pid \in DOMAIN playables
          /\ MaySkip(u)
          /\ progress' = InsertProgress(progress, SkipRecord(u, pid))
          /\ ever_recorded' = ever_recorded \cup {<<u, pid>>}
          /\ req' = [req EXCEPT ![r] =
                        Suspended("skip_playable", u, pid, "inc_skipped", FALSE,
                                  HasRecord(u, pid), {"progress"}, [none |-> TRUE])]
          /\ Silent /\ UNCHANGED <<users, playables>>

\* C10 mutant: the skip also resets current_streak
IncSkippedResettingStreak(r) ==
    /\ req[r].pc = "inc_skipped"
    /\ SkippedBelowBound(req[r].user)
    /\ users' = [users EXCEPT ![req[r].user].skipped = @ + 1,
                              ![req[r].user].current_streak = 0]
    /\ req' = [req EXCEPT ![r].pc = "skip_find_user",
                          ![r].wrote = @ \cup {"skipped"}]
    /\ Silent /\ UNCHANGED <<progress, playables, ever_recorded>>

\* await db.users.update_one(..., {"$inc": {"skipped": 1}})
IncSkipped(r) ==
    /\ req[r].pc = "inc_skipped"
    /\ SkippedBelowBound(req[r].user)
    /\ users' = [users EXCEPT ![req[r].user].skipped = @ + 1]
    /\ req' = [req EXCEPT ![r].pc = "skip_find_user",
                          ![r].wrote = @ \cup {"skipped"}]
    /\ Silent /\ UNCHANGED <<progress, playables, ever_recorded>>

\* "Get updated user stats" of skip_playable, and its response
SkipFindUser(r) ==
    /\ req[r].pc = "skip_find_user"
    /\ LET q == req[r]
           user_doc == users[q.user]
       IN Respond(q.op, q.user, q.pid, 200, q.wrote,
                               [skipped |-> TRUE,
                                current_streak |-> user_doc.current_streak,
                                total_skipped |-> user_doc.skipped])
    /\ req' = [req EXCEPT ![r] = IdleReq]
    /\ UNCHANGED <<users, progress, playables, ever_recorded>>

\* DELETE /user/reset-progress, up to delete_many
ResetUserProgress(r, u) ==
    /\ Free(r)
    /\ progress' = DeleteProgressOf(progress, u)
    /\ req' = [req EXCEPT ![r] =
                  Suspended("reset_user_progress", u, "none", "reset_stats",
                            FALSE, FALSE, {"deleted"}, [none |-> TRUE])]
    /\ Silent
    /\ UNCHANGED <<users, playables, ever_recorded>>

\* "Reset user stats" of reset_user_progress, and its response
ResetStats(r) ==
    /\ req[r].pc = "reset_stats"
    /\ users' = SetStats(users, req[r].user, NoStats)
    /\ Respond(req[r].op, req[r].user, "none", 200,
                            req[r].wrote \cup {"stats"},
                            [message |-> "Progress reset successfully"])
    /\ req' = [req EXCEPT ![r] = IdleReq]
    /\ UNCHANGED <<progress, playables, ever_recorded>>

\* POST /categories/select
SelectCategories(r, u, categories) ==
    /\ Free(r)
    /\ \/ /\ Len(categories) < 3
          /\ Respond("select_categories", u, "none", 400, {},
                                  [detail |-> "Please select at least 3 categories"])
          /\ UNCHANGED users
       \/ /\ Len(categories) >= 3
          /\ users' = [users EXCEPT ![u].selected_categories = categories,
                                    ![u].onboarding_complete = TRUE]
          /\ Respond("select_categories", u, "none", 200,
                                  {"categories"},
                                  [success |-> TRUE])
    /\ UNCHANGED <<progress, playables, req, ever_recorded>>

\* result_playables as returned: the stored documents, whole
ResultPlayables(store, items) == [i \in 1..Len(items) |-> store[items[i]]]

\* GET /playables/feed?limit=...  The handler writes nothing and reads the
\* ledger once; it is one step, taken when played_records is read.
GetPlayablesFeed(r, u, limit) ==
    /\ Free(r)
    /\ \E items \in FeedResults(playables, PlayedIds(u), limit) :
           Respond("get_playables_feed", u, "none", 200, {},
                                [limit |-> limit, items |-> items,
                                 documents |-> ResultPlayables(playables, items)])
    /\ UNCHANGED <<users, progress, playables, req, ever_recorded>>

\* A store call of a suspended handler raises: `except Exception` turns it
\* into HTTPException(status_code=500) and the handler's remaining writes
\* are not made.
StoreFailure(r) ==
    /\ InFlight(r)
    /\ Respond(req[r].op, req[r].user, req[r].pid, 500,
                            req[r].wrote, [detail |-> "error"])
    /\ req' = [req EXCEPT ![r] = IdleReq]
    /\ UNCHANGED <<users, progress, playables, ever_recorded>>

Limits == (0 - 1)..MaxLimit

\* Fewer inputs are drawn over the smaller store.
FewSubmissions == {<<"q">>}
FewHintNumbers == {1, MaxHintNumber}
FewMovesUsed == {2}
FewLimits == {MaxLimit}

FewInputs == DOMAIN playables = DOMAIN SmallStore
AnswersSent == IF FewInputs THEN FewSubmissions ELSE Submissions
HintNumbersSent == IF FewInputs THEN FewHintNumbers ELSE HintNumbers
MovesUsedSent == IF FewInputs THEN FewMovesUsed ELSE MovesUsed
LimitsSent == IF FewInputs THEN FewLimits ELSE Limits

\* The arrival of a request in a free slot, or the next step of the request
\* in a slot.
SubmitAnswerRequest ==
    /\ \E r \in Slots, u \in DOMAIN users, pid \in RequestIds,
          answer \in AnswersSent :
           SubmitAnswer(r, u, pid, answer)
    /\ UNCHANGED sessions_and_categories

SubmitGuessAnswerRequest ==
    /\ \E r \in Slots, u \in DOMAIN users, pid \in RequestIds,
          answer \in AnswersSent, hint_number \in HintNumbersSent :
           SubmitGuessAnswer(r, u, pid, answer, hint_number)
    /\ UNCHANGED sessions_and_categories

SubmitChessPuzzleResultRequest ==
    /\ \E r \in Slots, u \in DOMAIN users, pid \in RequestIds,
          solved \in BOOLEAN, moves_used \in MovesUsedSent :
           SubmitChessPuzzleResult(r, u, pid, solved, moves_used)
    /\ UNCHANGED sessions_and_categories

FindUserStep ==
    /\ \E r \in Slots : FindUser(r)
    /\ UNCHANGED sessions_and_categories

UpdateUserStep ==
    /\ \E r \in Slots : UpdateUser(r)
    /\ UNCHANGED sessions_and_categories

SkipPlayableRequest ==
    /\ \E r \in Slots, u \in DOMAIN users, pid \in RequestIds :
           SkipPlayable(r, u, pid)
    /\ UNCHANGED sessions_and_categories

IncSkippedStep ==
    /\ \E r \in Slots : IncSkipped(r)
    /\ UNCHANGED sessions_and_categories

SkipFindUserStep ==
    /\ \E r \in Slots : SkipFindUser(r)
    /\ UNCHANGED sessions_and_categories

ResetUserProgressRequest ==
    /\ \E r \in Slots, u \in DOMAIN users : ResetUserProgress(r, u)
    /\ UNCHANGED sessions_and_categories

ResetStatsStep ==
    /\ \E r \in Slots : ResetStats(r)
    /\ UNCHANGED sessions_and_categories

SelectCategoriesRequest ==
    /\ \E r \in Slots, u \in DOMAIN users, categories \in CategoryChoices :
           SelectCategories(r, u, categories)
    /\ UNCHANGED sessions_and_categories

GetPlayablesFeedRequest ==
    /\ \E r \in Slots, u \in DOMAIN users, limit \in LimitsSent :
           GetPlayablesFeed(r, u, limit)
    /\ UNCHANGED sessions_and_categories

StoreFailureStep ==
    /\ \E r \in Slots : StoreFailure(r)
    /\ UNCHANGED sessions_and_categories

Next ==
    \/ SubmitAnswerRequest
    \/ SubmitGuessAnswerRequest
    \/ SubmitChessPuzzleResultRequest
    \/ FindUserStep
    \/ UpdateUserStep
    \/ SkipPlayableRequest
    \/ IncSkippedStep
    \/ SkipFindUserStep
    \/ ResetUserProgressRequest
    \/ ResetStatsStep
    \/ SelectCategoriesRequest
    \/ GetPlayablesFeedRequest

\* Requests handled one at a time, every store call succeeding.
Spec == Init /\ [][Next]_vars

NextFailing == Next \/ StoreFailureStep

\* Requests handled one at a time, store calls that can fail.
SpecFailing == InitFailing /\ [][NextFailing]_vars

\* Two requests in flight, and store calls that can fail.
SpecConcurrent == InitConcurrent /\ [][NextFailing]_vars

\* Two gradings of a user in flight, and nothing else.
NextGrading ==
    \/ SubmitAnswerRequest
    \/ SubmitGuessAnswerRequest
    \/ SubmitChessPuzzleResultRequest
    \/ FindUserStep
    \/ UpdateUserStep

SpecGrading == InitConcurrent /\ [][NextGrading]_vars

\* ======================================================================
\* Properties
\* ======================================================================
IsFeedResponse == response.op = "get_playables_feed" /\ response.status = 200
FeedItems == SeqRange(response.body.items)

IsGradingResponse ==
    /\ response.op \in GradingOps
    /\ response.status = 200
    /\ "stats" \in response.wrote

\* number of Progress Records of (u, pid), answered or skipped
ConclusiveCount(u, pid) ==
    LET S == {rec \in RecordsOf(u) :
                 rec.playable_id = pid /\ (rec.answered \/ rec.skipped)}
        RECURSIVE Sum(_)
        Sum(T) == IF T = {} THEN 0
                  ELSE LET x == CHOOSE y \in T : TRUE
                       IN CopiesIn(x, progress) + Sum(T \ {x})
    IN Sum(S)

\* no request of user u is in flight
Quiescent(u) == \A r \in Slots : req[r].pc = "idle" \/ req[r].user # u

C2_DuplicateLeavesCounters ==
    [][\A r \in Slots :
          (req[r].pc = "update_user" /\ req[r].had_record)
              => Stats(users'[req[r].user]) = Stats(users[req[r].user])]_vars

\* ---------------------------------------------------------------- C3
\* C3: the ledger holds at most one conclusive Progress Record per
\* (user, playable) pair.
C3_AtMostOneConclusive ==
    \A u \in DOMAIN users, pid \in DOMAIN playables : ConclusiveCount(u, pid) <= 1

\* ---------------------------------------------------------------- C4
\* C4: with only gradings running, once none of a user's gradings is in
\* flight the counters are those of a serial execution: total_played counts
\* the gradings made (one Progress Record each).
C4_NoLostUpdate ==
    \A u \in DOMAIN users :
        Quiescent(u) => users[u].total_played = RecordCount(u)

\* ---------------------------------------------------------------- C5
\* C5: a grading that has returned wrote both the Progress Record and the
\* counters, or neither.
C5_NoPartialWrite ==
    (response.op \in GradingOps /\ response.status \in {200, 500}) =>
        ("progress" \in response.wrote <=> "stats" \in response.wrote)

\* ---------------------------------------------------------------- C6
\* C6: with only gradings running, best_streak never decreases and is at
\* least current_streak after each step.
C6_StreakMonotone ==
    [][\A u \in DOMAIN users :
          /\ users'[u].best_streak >= users[u].best_streak
          /\ users'[u].best_streak >= users'[u].current_streak]_vars

\* ---------------------------------------------------------------- C7
\* C7: correct_answers <= total_played and current_streak <= best_streak in
\* every reachable state, whatever the interleaving.
C7_CounterOrdering ==
    \A u \in DOMAIN users :
        /\ users[u].correct_answers <= users[u].total_played
        /\ users[u].current_streak <= users[u].best_streak

\* C7 witness: a grading about to write counters computed from a read that
\* another request's write has made stale, after a correct answer.
C7_Witness ==
    \E r \in Slots :
        /\ req[r].pc = "update_user"
        /\ req[r].user_doc # Stats(users[req[r].user])
        /\ users[req[r].user].best_streak >= 1
        /\ users[req[r].user].selected_categories # <<>>
        /\ users[req[r].user].skipped >= 1

\* ---------------------------------------------------------------- C8
\* C8: no step decreases total_played, correct_answers or best_streak.
C8_CountersMonotone ==
    [][\A u \in DOMAIN users :
          /\ users'[u].total_played >= users[u].total_played
          /\ users'[u].correct_answers >= users[u].correct_answers
          /\ users'[u].best_streak >= users[u].best_streak]_vars

\* ---------------------------------------------------------------- C9
\* C9: the counter write of a grading that ran without interleaving applies
\* the stats update rule to the counters, and the response carries the new
\* values.
C9_StatsUpdateRule ==
    [][\A r \in Slots :
          (req[r].pc = "update_user" /\ req'[r].pc = "idle") =>
              LET old == users[req[r].user]
                  new == users'[req[r].user]
                  correct == req[r].is_correct
              IN /\ new.total_played = old.total_played + 1
                 /\ new.correct_answers =
                        IF correct THEN old.correct_answers + 1
                        ELSE old.correct_answers
                 /\ new.current_streak =
                        IF correct THEN old.current_streak + 1 ELSE 0
                 /\ new.best_streak =
                        IF correct /\ old.current_streak + 1 > old.best_streak
                        THEN old.current_streak + 1
                        ELSE old.best_streak
                 /\ new.skipped = old.skipped
                 /\ response'.status = 200
                 /\ response'.body.correct = correct
                 /\ response'.body.stats = Stats(new)]_vars

\* C9 witness: an incorrect grading has reset a streak and kept best_streak.
C9_Witness ==
    /\ IsGradingResponse
    /\ ~response.body.correct
    /\ response.body.stats.current_streak = 0
    /\ response.body.stats.best_streak >= 1
    /\ response.body.stats.total_played >= 2

\* --------------------------------------------------------------- C10
\* C10: skip_playable on an existing playable inserts one Progress Record
\* with skipped = true, answered = false, correct = false, then raises
\* skipped by 1, and none of its steps changes the four other counters.
C10_SkipSemantics ==
    [][\A r \in Slots :
          /\ (req[r].pc = "idle" /\ req'[r].op = "skip_playable") =>
                 /\ \E rec \in BagToSet(progress') :
                        /\ progress' = InsertProgress(progress, rec)
                        /\ rec.user_id = req'[r].user
                        /\ rec.playable_id = req'[r].pid
                        /\ rec.skipped /\ ~rec.answered /\ ~rec.correct
                 /\ users' = users
          /\ (req[r].pc = "inc_skipped" /\ req'[r].pc = "skip_find_user") =>
                 /\ users'[req[r].user].skipped = users[req[r].user].skipped + 1
                 /\ Stats(users'[req[r].user]) = Stats(users[req[r].user])
                 /\ progress' = progress
          /\ (req[r].pc = "skip_find_user" /\ req'[r].pc = "idle") =>
                 /\ req[r].wrote = {"progress", "skipped"}
                 /\ users' = users
                 /\ progress' = progress]_vars

\* C10 witness: a skip has written its record and raised skipped, while the
\* user holds a streak.
C10_Witness ==
    \E r \in Slots :
        /\ req[r].op = "skip_playable"
        /\ req[r].pc = "skip_find_user"
        /\ SkipRecord(req[r].user, req[r].pid) \in BagToSet(progress)
        /\ users[req[r].user].skipped = 1
        /\ users[req[r].user].current_streak >= 1

\* --------------------------------------------------------------- C11
\* a 200 response of submit_guess_answer, in one shape: the fields of the
\* conclusive response next to `correct`
IsGuessResponse(resp) == resp.op = "submit_guess_answer" /\ resp.status = 200

GuessReply(resp) ==
    IF "extra" \in DOMAIN resp.body
    THEN [correct |-> resp.body.correct,
          correct_answer |-> resp.body.extra.correct_answer,
          feedback_message |-> resp.body.extra.feedback_message,
          hints_used |-> resp.body.extra.hints_used,
          total_hints |-> resp.body.extra.total_hints,
          all_hints_exhausted |-> resp.body.extra.all_hints_exhausted,
          reveal_next_hint |-> FALSE]
    ELSE resp.body

\* C11: a submit_guess_answer call answered "incorrect" at a hint_number
\* below the number of hints writes no Progress Record, changes no counter,
\* and its response has correct_answer = None and reveal_next_hint = true.
C11_InconclusiveGuess ==
    [][(/\ IsGuessResponse(response')
        /\ ~GuessReply(response').correct
        /\ GuessReply(response').hints_used < GuessReply(response').total_hints)
          => /\ progress' = progress
             /\ users' = users
             /\ GuessReply(response').correct_answer = None
             /\ GuessReply(response').reveal_next_hint]_vars

\* C11 witness: an inconclusive response at hint 2 to a user whose counters
\* and ledger are not empty.
C11_Witness ==
    /\ IsGuessResponse(response)
    /\ ~GuessReply(response).correct
    /\ GuessReply(response).hints_used = 2
    /\ GuessReply(response).reveal_next_hint
    /\ users[response.user].total_played >= 1
    /\ users[response.user].current_streak >= 1
    /\ RecordCount(response.user) >= 1

\* --------------------------------------------------------------- C12
\* C12: a submit_guess_answer call with an incorrect answer is conclusive
\* exactly at hint_number >= number of hints; it then inserts one Progress
\* Record with correct = false and hints_used = hint_number, its counter
\* write sets current_streak to 0 and total_played + 1 and keeps best_streak,
\* and its response reveals correct_answer with all_hints_exhausted = true.
C12_ConclusiveFailure ==
    [][\A r \in Slots :
          /\ (/\ req[r].pc = "idle"
              /\ req'[r].op = "submit_guess_answer"
              /\ req'[r].pc = "find_user"
              /\ ~req'[r].is_correct) =>
                 /\ req'[r].body.hints_used >= req'[r].body.total_hints
                 /\ progress' =
                        InsertProgress(progress,
                            [user_id |-> req'[r].user,
                             playable_id |-> req'[r].pid,
                             answered |-> TRUE, correct |-> FALSE,
                             skipped |-> FALSE,
                             hints_used |-> req'[r].body.hints_used,
                             moves_used |-> 0])
                 /\ users' = users
          /\ (/\ req[r].op = "submit_guess_answer"
              /\ req[r].pc = "update_user"
              /\ ~req[r].is_correct
              /\ req'[r].pc = "idle") =>
                 LET old == users[req[r].user]
                     new == users'[req[r].user]
                 IN /\ new.current_streak = 0
                    /\ new.total_played = old.total_played + 1
                    /\ new.best_streak = old.best_streak
                    /\ new.correct_answers = old.correct_answers
                    /\ progress' = progress
                    /\ IsGuessResponse(response')
                    /\ ~GuessReply(response').correct
                    /\ GuessReply(response').correct_answer =
                           playables[req[r].pid].correct_answer
                    /\ GuessReply(response').all_hints_exhausted
                    /\ GuessReply(response').hints_used >=
                           Len(playables[req[r].pid].hints)
          /\ (IsGuessResponse(response') /\ GuessReply(response').reveal_next_hint)
                 => GuessReply(response').hints_used <
                        GuessReply(response').total_hints]_vars

\* C12 witness: a conclusive failure at the last hint has reset a streak.
C12_Witness ==
    /\ IsGuessResponse(response)
    /\ ~GuessReply(response).correct
    /\ GuessReply(response).all_hints_exhausted
    /\ GuessReply(response).hints_used = GuessReply(response).total_hints
    /\ response.body.stats.current_streak = 0
    /\ response.body.stats.best_streak >= 1
    /\ \E rec \in RecordsOf(response.user) :
           /\ rec.playable_id = response.pid
           /\ ~rec.correct
           /\ rec.hints_used = GuessReply(response).hints_used

\* --------------------------------------------------------------- C13
\* C13: in a run of submit_guess_answer calls on a playable, the calls
\* answered "incorrect" below the last hint write nothing, and the call
\* with the correct answer at hint_number k inserts exactly one Progress
\* Record, with correct = true and hints_used = k, and raises total_played
\* by exactly 1; a pair without a record before it has exactly one after.
C13_GuessRun ==
    [][\A r \in Slots :
          /\ (IsGuessResponse(response') /\ GuessReply(response').reveal_next_hint)
                 => progress' = progress /\ users' = users
          /\ (/\ req[r].pc = "idle"
              /\ req'[r].op = "submit_guess_answer"
              /\ req'[r].pc = "find_user"
              /\ req'[r].is_correct) =>
                 /\ progress' =
                        InsertProgress(progress,
                            [user_id |-> req'[r].user,
                             playable_id |-> req'[r].pid,
                             answered |-> TRUE, correct |-> TRUE,
                             skipped |-> FALSE,
                             hints_used |-> req'[r].body.hints_used,
                             moves_used |-> 0])
                 /\ ~req'[r].had_record =>
                        \A rec \in BagToSet(progress') :
                            (/\ rec.user_id = req'[r].user
                             /\ rec.playable_id = req'[r].pid) =>
                                /\ CopiesIn(rec, progress') = 1
                                /\ rec.correct
                                /\ rec.hints_used = req'[r].body.hints_used
                 /\ users' = users
          /\ (/\ req[r].op = "submit_guess_answer"
              /\ req[r].pc = "update_user"
              /\ req[r].is_correct
              /\ req'[r].pc = "idle") =>
                 /\ users'[req[r].user].total_played =
                        users[req[r].user].total_played + 1
                 /\ progress' = progress
                 /\ IsGuessResponse(response')
                 /\ GuessReply(response').correct
                 /\ GuessReply(response').hints_used = req[r].body.hints_used]_vars

\* C13 witness: the correct guess at hint 2 has returned; the pair has one
\* record, with hints_used = 2, and total_played is 1.
C13_Witness ==
    /\ IsGuessResponse(response)
    /\ GuessReply(response).correct
    /\ GuessReply(response).hints_used = 2
    /\ ConclusiveCount(response.user, response.pid) = 1
    /\ RecordCount(response.user) = 1
    /\ response.body.stats.total_played = 1
    /\ \E rec \in RecordsOf(response.user) :
           rec.playable_id = response.pid /\ rec.correct /\ rec.hints_used = 2

\* --------------------------------------------------------------- C14
\* hint_number is any int of the request body: guesses at hint numbers past
\* the hints of the playable and past the feedback messages
LateHintNumbers == 1..MaxLateHintNumber
GuessSubmissions == {<<"X">>, <<"q">>}

SubmitGuessAnswerLateRequest ==
    /\ \E r \in Slots, u \in DOMAIN users, pid \in RequestIds,
          answer \in GuessSubmissions, hint_number \in LateHintNumbers :
           SubmitGuessAnswer(r, u, pid, answer, hint_number)
    /\ UNCHANGED sessions_and_categories

NextFeedback ==
    \/ SubmitGuessAnswerLateRequest
    \/ FindUserStep
    \/ UpdateUserStep
    \/ ResetUserProgressRequest
    \/ ResetStatsStep

\* Guesses at any hint number, one request at a time.
SpecFeedback == InitFailing /\ [][NextFeedback]_vars

\* C14: the response to a correct guess at hint_number h >= 1 carries the
\* h-th feedback message, and the last one for every h past the list.
C14_FeedbackClamped ==
    (/\ IsGuessResponse(response)
     /\ GuessReply(response).correct
     /\ GuessReply(response).hints_used >= 1) =>
        GuessReply(response).feedback_message =
            feedback_messages[Min(GuessReply(response).hints_used,
                                  Len(feedback_messages))]

\* ------------------------------------------------ admin_add_playable
\* playable_id = f"play_{uuid.uuid4().hex[:12]}": ids not yet in the store
NewPlayableIds == {"play_aaaaaaaaaaa1", "play_aaaaaaaaaaa2"}

\* AddPlayableRequest bodies tried, of the types text, guess_the_x and
\* chess_mate_in_2.  question_text and fen are TRUE when the field is given;
\* <<>> stands for an Optional list that is None.
AdminAnswers == { <<>>, <<" ">>, <<"P", "a">> }
AdminAlternates == { <<>>, << <<" ">> >>, << <<"p", "x">> >> }

TextRequest ==
    [type |-> "text", answer_type |-> "text_input", category |-> "BOLLYWOOD",
     question_text |-> TRUE, options |-> <<>>, correct_answer |-> <<"P", "a">>,
     alternate_answers |-> <<>>, hints |-> <<>>, fen |-> FALSE,
     solution |-> <<>>]

GuessRequest ==
    [type |-> "guess_the_x", answer_type |-> "text_input",
     category |-> "CRICKET", question_text |-> TRUE, options |-> <<>>,
     correct_answer |-> <<"P", "a">>, alternate_answers |-> <<>>,
     hints |-> <<"h1", "h2", "h3">>, fen |-> FALSE, solution |-> <<>>]

ChessRequest ==
    [type |-> "chess_mate_in_2", answer_type |-> "text_input",
     category |-> "CHESS", question_text |-> FALSE, options |-> <<>>,
     correct_answer |-> <<"q">>, alternate_answers |-> <<>>, hints |-> <<>>,
     fen |-> TRUE, solution |-> <<"e2e4">>]

AddPlayableRequests ==
    {[TextRequest EXCEPT !.correct_answer = c, !.alternate_answers = alt] :
         c \in AdminAnswers, alt \in AdminAlternates}
    \cup
    {[TextRequest EXCEPT !.answer_type = "mcq", !.correct_answer = c,
                         !.options = opts] :
         c \in AdminAnswers, opts \in { <<>>, << <<"P", "a">>, <<"q">> >> }}
    \cup
    {[TextRequest EXCEPT !.category = "NOPE"],
     [TextRequest EXCEPT !.question_text = FALSE]}
    \cup
    {[GuessRequest EXCEPT !.correct_answer = c, !.alternate_answers = alt] :
         c \in AdminAnswers, alt \in AdminAlternates}
    \cup
    {[GuessRequest EXCEPT !.hints = h] :
         h \in { <<>>, <<"h1", "h2", "h3", "h4", "h5", "h6">> }}
    \cup
    {ChessRequest, [ChessRequest EXCEPT !.fen = FALSE],
     [ChessRequest EXCEPT !.solution = <<>>]}

\* the detail of the first HTTPException(status_code=400) the validation of
\* admin_add_playable raises for a request of these types, "" when it passes
AddPlayableError(request) ==
    IF request.category \notin category_docs
        THEN "Category does not exist"
    ELSE IF request.type = "text" /\ ~request.question_text
        THEN "Text question requires question_text"
    ELSE IF request.type = "guess_the_x" /\ Len(request.hints) < 3
        THEN "Guess the X requires at least 3 hints"
    ELSE IF request.type = "guess_the_x" /\ Len(request.hints) > 5
        THEN "Guess the X allows maximum 5 hints"
    ELSE IF request.type = "chess_mate_in_2" /\ ~request.fen
        THEN "Chess puzzle requires a FEN position"
    ELSE IF request.type = "chess_mate_in_2" /\ Len(request.solution) < 1
        THEN "Chess puzzle requires at least 1 solution move"
    ELSE IF /\ request.answer_type = "mcq"
            /\ request.type \notin {"guess_the_x", "chess_mate_in_2"}
            /\ Len(request.options) < 2
        THEN "MCQ requires at least 2 options"
    ELSE IF /\ request.answer_type = "mcq"
            /\ request.type \notin {"guess_the_x", "chess_mate_in_2"}
            /\ request.correct_answer \notin SeqRange(request.options)
        THEN "Correct answer must be one of the options"
    ELSE ""

\* playable_doc of admin_add_playable, the fields the model keeps
PlayableDoc(request) ==
    [type |-> request.type,
     category |-> request.category,
     correct_answer |-> request.correct_answer,
     alternate_answers |->
         IF \/ request.answer_type = "text_input"
            \/ request.type \in {"guess_the_x", "chess_mate_in_2"}
         THEN request.alternate_answers ELSE <<>>,
     hints |-> IF request.type = "guess_the_x" THEN request.hints ELSE <<>>]

\* db.playables.insert_one(playable_doc)
InsertPlayable(store, playable_id, doc) ==
    [pid \in DOMAIN store \cup {playable_id} |->
        IF pid = playable_id THEN doc ELSE store[pid]]

AddedIds == DOMAIN playables \cap NewPlayableIds

\* POST /admin/add-playable
AdminAddPlayable(r, request) ==
    /\ Free(r)
    /\ \/ /\ AddPlayableError(request) # ""
          /\ Respond("admin_add_playable", "admin", "none", 400, {},
                     [detail |-> AddPlayableError(request)])
          /\ UNCHANGED <<users, progress, playables, req, ever_recorded>>
       \/ /\ AddPlayableError(request) = ""
          /\ Cardinality(AddedIds) < MaxAdded
          /\ \E playable_id \in NewPlayableIds \ DOMAIN playables :
                /\ playables' =
                       InsertPlayable(playables, playable_id, PlayableDoc(request))
                /\ Respond("admin_add_playable", "admin", playable_id, 200,
                           {"playables"}, [success |-> TRUE])
          /\ UNCHANGED <<users, progress, req, ever_recorded>>

AdminAddPlayableRequest ==
    /\ \E r \in Slots, request \in AddPlayableRequests : AdminAddPlayable(r, request)
    /\ UNCHANGED sessions_and_categories

\* --------------------------------------------------------------- C15
\* submissions that differ in case and surrounding whitespace only, and
\* others that differ inside
MatchingCases ==
    { <<"p", "a">>, <<" ", "P", "A", " ">>, <<"P", "a", "\t">>,
      <<"p", " ", "a">>, <<"P", "X">>, <<"\t", "p", "x", " ">>,
      <<"x">>, <<" ", "X">>, <<"Q", " ">>, <<"q">>, <<" ">>, <<>> }

\* answers to the stored playables, added ones included
StoredSubmissions ==
    { <<>>, <<" ">>, <<" ", "P", "A", " ">>, <<"p", "a">>, <<"p", "x">> }

SubmitAnswerStoredRequest ==
    /\ \E r \in Slots, u \in DOMAIN users,
          pid \in DOMAIN playables \cup {"play_missing"},
          answer \in StoredSubmissions :
           SubmitAnswer(r, u, pid, answer)
    /\ UNCHANGED sessions_and_categories

SubmitGuessAnswerStoredRequest ==
    /\ \E r \in Slots, u \in DOMAIN users,
          pid \in DOMAIN playables \cup {"play_missing"},
          answer \in StoredSubmissions, hint_number \in FewHintNumbers :
           SubmitGuessAnswer(r, u, pid, answer, hint_number)
    /\ UNCHANGED sessions_and_categories

NextAdmin ==
    \/ AdminAddPlayableRequest
    \/ SubmitAnswerStoredRequest
    \/ SubmitGuessAnswerStoredRequest
    \/ FindUserStep
    \/ UpdateUserStep

\* The admin adds playables; answers are graded against the store.
SpecAdmin == InitFailing /\ [][NextAdmin]_vars

\* C15: for every stored playable, two submissions that are equal after
\* strip and lower get the same verdict, and the verdict is true exactly
\* when the stripped, lower-cased submission equals the stripped, lower-cased
\* correct_answer or alternate answer.
C15_NormalizedMatching ==
    \A pid \in DOMAIN playables :
        LET playable == playables[pid]
            Accepted ==
                {Normalize(playable.correct_answer)} \cup
                {Normalize(playable.alternate_answers[i]) :
                     i \in 1..Len(playable.alternate_answers)}
        IN /\ \A a, b \in MatchingCases :
                  Normalize(a) = Normalize(b) =>
                      (CheckAnswer(playable, a) <=> CheckAnswer(playable, b))
           /\ \A a \in MatchingCases \cup Submissions :
                  CheckAnswer(playable, a) <=> Normalize(a) \in Accepted

\* C15 witness: an answer has been graded correct against an added
\* playable whose correct_answer is not in normal form, and the submissions
\* tried hold two different ones that normalize to it.
C15_Witness ==
    \E r \in Slots :
        /\ req[r].op = "submit_answer"
        /\ req[r].pid \in AddedIds
        /\ req[r].is_correct
        /\ LET playable == playables[req[r].pid]
           IN /\ playable.alternate_answers = <<>>
              /\ playable.correct_answer # Normalize(playable.correct_answer)
              /\ \E a, b \in MatchingCases :
                     /\ a # b
                     /\ a # playable.correct_answer
                     /\ b # playable.correct_answer
                     /\ Normalize(a) = Normalize(playable.correct_answer)
                     /\ Normalize(b) = Normalize(playable.correct_answer)

\* --------------------------------------------------------------- C16
BlankSubmissions == {a \in MatchingCases \cup StoredSubmissions : Strip(a) = <<>>}

\* C16: no playable in the store, added ones included, grades an empty or
\* whitespace-only submission correct.
C16_BlankNeverCorrect ==
    \A pid \in DOMAIN playables, a \in BlankSubmissions :
        ~CheckAnswer(playables[pid], a)

\* ------------------------------------------------------------ feed runs
\* A store holding the first two curated playables, a later one and one
\* that is not curated.
FeedStore ==
    [pid \in DOMAIN SeedPlayables \cup {"play_9c2d0aedae90"} |->
        IF pid \in DOMAIN SeedPlayables THEN SeedPlayables[pid]
        ELSE [type |-> "text", category |-> "TRIVIA",
              correct_answer |-> <<"q">>, alternate_answers |-> <<>>,
              hints |-> <<>>]]

FeedUsers == {"u1", "u2"}

\* Two users, one request at a time, responses recorded.
InitFeed ==
    /\ users = [u \in FeedUsers |-> NewUser]
    /\ progress = EmptyBag
    /\ playables = FeedStore
    /\ req = [r \in {1} |-> IdleReq]
    /\ response = NoResponse
    /\ ever_recorded = {}
    /\ sessions = FirstSessions(FeedUsers)
    /\ now = 0
    /\ authorization = NoHeader
    /\ category_docs = Categories \cup {"TRIVIA"}

\* C30 mutant: the deletion takes the Progress Records of the playable along
AdminDeletePlayableCascading(r, playable_id) ==
    /\ Free(r)
    /\ playable_id \in DOMAIN playables
    /\ playables' =
           [pid \in DOMAIN playables \ {playable_id} |-> playables[pid]]
    /\ progress' =
           progress (-) [rec \in {x \in BagToSet(progress) :
                                     x.playable_id = playable_id}
                         |-> CopiesIn(rec, progress)]
    /\ Respond("admin_delete_playable", "admin", playable_id, 200,
               {"playables"}, [success |-> TRUE])
    /\ UNCHANGED <<users, req, ever_recorded>>

\* DELETE /admin/playables/{playable_id}
AdminDeletePlayable(r, playable_id) ==
    /\ Free(r)
    /\ \/ /\ playable_id \notin DOMAIN playables
          /\ Respond("admin_delete_playable", "admin", playable_id, 404, {},
                     [detail |-> "Playable not found"])
          /\ UNCHANGED <<users, progress, playables, req, ever_recorded>>
       \/ /\ playable_id \in DOMAIN playables
          /\ playables' =
                 [pid \in DOMAIN playables \ {playable_id} |-> playables[pid]]
          /\ Respond("admin_delete_playable", "admin", playable_id, 200,
                     {"playables"}, [success |-> TRUE])
          /\ UNCHANGED <<users, progress, req, ever_recorded>>

AdminDeletePlayableRequest ==
    /\ \E r \in Slots, playable_id \in DOMAIN FeedStore :
           AdminDeletePlayable(r, playable_id)
    /\ UNCHANGED sessions_and_categories

SkipStoredRequest ==
    /\ \E r \in Slots, u \in DOMAIN users, pid \in DOMAIN playables :
           SkipPlayable(r, u, pid)
    /\ UNCHANGED sessions_and_categories

GetFeedRequest ==
    /\ \E r \in Slots, u \in DOMAIN users, limit \in Limits :
           GetPlayablesFeed(r, u, limit)
    /\ UNCHANGED sessions_and_categories

NextFeed ==
    \/ GetFeedRequest
    \/ SkipStoredRequest
    \/ IncSkippedStep
    \/ SkipFindUserStep
    \/ AdminDeletePlayableRequest

\* Feeds of two users over a store the admin deletes from.
SpecFeed == InitFeed /\ [][NextFeed]_vars

\* the first n ids of the curated list
CuratedPrefix(n) == SubSeq(CURATED_PLAYABLE_IDS, 1, n)

\* --------------------------------------------------------------- C17
\* C17 as stated: a user with no Progress Records who calls the feed with
\* limit N, 1 <= N <= length of the curated list, receives the first N
\* curated ids in curated order, whoever the user is.
C17_CuratedPrefixAlways ==
    (/\ IsFeedResponse
     /\ PlayedIds(response.user) = {}
     /\ response.body.limit \in 1..Len(CURATED_PLAYABLE_IDS)) =>
        response.body.items = CuratedPrefix(response.body.limit)

\* C17, amended: the same, when the first N curated ids are all in the
\* store.
C17_CuratedPrefixWhenStored ==
    (/\ IsFeedResponse
     /\ PlayedIds(response.user) = {}
     /\ response.body.limit \in 1..Len(CURATED_PLAYABLE_IDS)
     /\ SeqRange(CuratedPrefix(response.body.limit)) \subseteq DOMAIN playables) =>
        response.body.items = CuratedPrefix(response.body.limit)

\* C17 witness: the second user, without records, has received the first
\* two curated ids after the first user skipped the first of them.
C17_Witness ==
    /\ IsFeedResponse
    /\ response.user = "u2"
    /\ PlayedIds("u2") = {}
    /\ PlayedIds("u1") = {CURATED_PLAYABLE_IDS[1]}
    /\ response.body.limit = 2
    /\ response.body.items = CuratedPrefix(2)

\* --------------------------------------------------------------- C18
\* the stored curated ids the user has no record of, in curated order, and
\* the stored other ids the user has no record of
UnseenCurated(u) ==
    Filter(CURATED_PLAYABLE_IDS, (DOMAIN playables \cap CuratedSet) \ PlayedIds(u))

UnseenOthers(u) == DOMAIN playables \ (CuratedSet \cup PlayedIds(u))

\* C18: a feed with limit >= 0 returns min(limit, c + r) items: the first
\* unseen stored curated ids in curated order, then unseen stored ids that
\* are not curated.
C18_SizeAndOrder ==
    (IsFeedResponse /\ response.body.limit >= 0) =>
        LET items == response.body.items
            curated == UnseenCurated(response.user)
            others == UnseenOthers(response.user)
            n == Min(response.body.limit, Len(curated) + Cardinality(others))
            k == Min(n, Len(curated))
        IN /\ Len(items) = n
           /\ SubSeq(items, 1, k) = SubSeq(curated, 1, k)
           /\ \A i \in (k + 1)..n : items[i] \in others

\* --------------------------------------------------------------- C19
\* C19: a feed response holds at most `limit` items, for every limit.
C19_AtMostLimit ==
    IsFeedResponse => Len(response.body.items) <= response.body.limit

\* --------------------------------------------------------------- C20
\* C20: a feed with limit >= 1 is empty only when every stored playable has
\* a Progress Record of the user.
C20_EmptyOnlyWhenExhausted ==
    (IsFeedResponse /\ response.body.limit >= 1 /\ response.body.items = <<>>)
        => DOMAIN playables \subseteq PlayedIds(response.user)

\* ------------------------------------------------------- category runs
\* category lists of three or more names, with and without CHESS
CategorySelections ==
    { <<"BOLLYWOOD", "CHESS", "TRIVIA">>, <<"BOLLYWOOD", "CRICKET", "TRIVIA">> }

SelectStoredCategoriesRequest ==
    /\ \E r \in Slots, u \in DOMAIN users, categories \in CategorySelections :
           SelectCategories(r, u, categories)
    /\ UNCHANGED sessions_and_categories

NextCategories ==
    \/ GetFeedRequest
    \/ SkipStoredRequest
    \/ IncSkippedStep
    \/ SkipFindUserStep
    \/ AdminDeletePlayableRequest
    \/ SelectStoredCategoriesRequest

\* Feeds of two users who select categories.
SpecCategories == InitFeed /\ [][NextCategories]_vars

\* --------------------------------------------------------------- C21
\* C21: for a user with onboarding_complete = true and a non-empty
\* selected_categories, every non-curated item of a feed response has a
\* category in selected_categories.
C21_CategoryScoping ==
    (/\ IsFeedResponse
     /\ users[response.user].onboarding_complete
     /\ users[response.user].selected_categories # <<>>) =>
        \A pid \in (FeedItems \ CuratedSet) \cap DOMAIN playables :
            playables[pid].category \in
                SeqRange(users[response.user].selected_categories)

\* ------------------------------------------------------- default pages
\* the value of `limit` when the query string has none
DefaultLimit == 10

GetFeedDefaultRequest ==
    /\ \E r \in Slots, u \in DOMAIN users :
           GetPlayablesFeed(r, u, DefaultLimit)
    /\ UNCHANGED sessions_and_categories

NextDefaultFeed ==
    \/ GetFeedDefaultRequest
    \/ SkipStoredRequest
    \/ IncSkippedStep
    \/ SkipFindUserStep
    \/ AdminDeletePlayableRequest

\* Feeds of the default page size.
SpecDefaultFeed == InitFeed /\ [][NextDefaultFeed]_vars

\* --------------------------------------------------------------- C22
\* C22: the document a feed response carries for a guess_the_x playable
\* that the user has no Progress Record of has no correct_answer field.
C22_AnswerWithheld ==
    IsFeedResponse =>
        \A i \in 1..Len(response.body.documents) :
            (/\ response.body.documents[i].type = "guess_the_x"
             /\ ~HasRecord(response.user, response.body.items[i])) =>
                "correct_answer" \notin DOMAIN response.body.documents[i]

\* ======================================================================
\* Sessions
\* ======================================================================
\* session tokens: the uuid tokens dev_login makes up, and the tokens the
\* OAuth service hands out, which exchange_session stores as received
DevTokens == {FirstToken(u) : u \in Users} \cup {<<"dev_session", "2">>}
OAuthTokens == {<<"oauth", "t">>}
Headers == DevTokens \cup OAuthTokens \cup {NoHeader}

\* the documents find_one({"session_token": session_token}) can return
SessionsWith(session_token) ==
    {session \in BagToSet(sessions) : session.session_token = session_token}

\* C23 mutant: no expiry check
ExpiredNever(session) == FALSE

\* expires_at < datetime.now(timezone.utc)
Expired(session) == session.expires_at < now

\* get_current_user_from_token: the user ids it can return, "none" for None
CurrentUsers(header) ==
    IF header = NoHeader \/ SessionsWith(header) = {} THEN {"none"}
    ELSE {IF Expired(session) \/ session.user_id \notin DOMAIN users
          THEN "none" ELSE session.user_id : session \in SessionsWith(header)}

\* raise HTTPException(status_code=401, detail="Not authenticated")
NotAuthenticated(r, op) ==
    /\ Free(r)
    /\ Respond(op, "none", "none", 401, {}, [detail |-> "Not authenticated"])
    /\ UNCHANGED <<users, progress, playables, req, ever_recorded>>

\* Depends(require_auth) with the header: the request ends with 401 before
\* the handler runs when get_current_user_from_token gives None
RequireAuth(r, op, header, user) ==
    /\ authorization' = header
    /\ user \in CurrentUsers(header)
    /\ user = "none" => NotAuthenticated(r, op)
    /\ UNCHANGED <<sessions, now, category_docs>>

\* C33 mutant: the stored `skipped` counter is reported
GetUserStatsStoredSkipped(r, u) ==
    /\ Free(r)
    /\ Respond("get_user_stats", u, "none", 200, {},
               [stats |-> Stats(users[u]), skipped |-> users[u].skipped])
    /\ UNCHANGED <<users, progress, playables, req, ever_recorded>>

\* GET /user/stats: the User model has no `skipped` field, getattr gives 0
GetUserStats(r, u) ==
    /\ Free(r)
    /\ Respond("get_user_stats", u, "none", 200, {},
               [stats |-> Stats(users[u]), skipped |-> 0])
    /\ UNCHANGED <<users, progress, playables, req, ever_recorded>>

SessionsBelowBound == BagCardinality(sessions) < MaxSessions

\* POST /auth/dev-login: a session with a new token for the dev user
DevLogin(r, u, session_token) ==
    /\ Free(r)
    /\ SessionsBelowBound
    /\ SessionsWith(session_token) = {}
    /\ sessions' = sessions (+) SetToBag({SessionDoc(u, session_token, now)})
    /\ Respond("dev_login", u, "none", 200, {"sessions"},
               [session_token |-> session_token])
    /\ UNCHANGED <<users, progress, playables, req, ever_recorded,
                   now, category_docs, authorization>>

\* POST /auth/session: a session with the token of the OAuth session data
ExchangeSession(r, u, session_token) ==
    /\ Free(r)
    /\ SessionsBelowBound
    /\ sessions' = sessions (+) SetToBag({SessionDoc(u, session_token, now)})
    /\ Respond("exchange_session", u, "none", 200, {"sessions"},
               [session_token |-> session_token])
    /\ UNCHANGED <<users, progress, playables, req, ever_recorded,
                   now, category_docs, authorization>>

\* db.user_sessions.delete_one({"session_token": session_token})
DeleteOneSession(docs, session_token) ==
    IF SessionsWith(session_token) = {} THEN {docs}
    ELSE {docs (-) SetToBag({session}) : session \in SessionsWith(session_token)}

\* POST /auth/logout
Logout(r, header) ==
    /\ Free(r)
    /\ \/ /\ header = NoHeader
          /\ Respond("logout", "none", "none", 400, {},
                     [detail |-> "No authorization header"])
          /\ UNCHANGED sessions
       \/ /\ header # NoHeader
          /\ sessions' \in DeleteOneSession(sessions, header)
          /\ Respond("logout", "none", "none", 200, {"sessions"},
                     [session_token |-> header])
    /\ UNCHANGED <<users, progress, playables, req, ever_recorded,
                   now, category_docs, authorization>>

\* Time passes.
Tick ==
    /\ now < MaxNow
    /\ now' = now + 1
    /\ Silent
    /\ UNCHANGED <<users, progress, playables, req, ever_recorded,
                   sessions, category_docs, authorization>>

\* The requests of the endpoints guarded by require_auth, one playable for
\* each kind of request.
AnsweredId == "play_000000000001"
GuessedId == "play_9ddad6ff412e"

AuthFeedRequest ==
    \E r \in Slots, header \in Headers,
       u \in DOMAIN users \cup {"none"} :
        /\ RequireAuth(r, "get_playables_feed", header, u)
        /\ u # "none" => GetPlayablesFeed(r, u, MaxLimit)

AuthAnswerRequest ==
    \E r \in Slots, header \in Headers, pid \in {AnsweredId},
       u \in DOMAIN users \cup {"none"} :
        /\ RequireAuth(r, "submit_answer", header, u)
        /\ u # "none" => SubmitAnswer(r, u, pid, <<"q">>)

AuthGuessAnswerRequest ==
    \E r \in Slots, header \in Headers, pid \in {GuessedId},
       u \in DOMAIN users \cup {"none"} :
        /\ RequireAuth(r, "submit_guess_answer", header, u)
        /\ u # "none" => SubmitGuessAnswer(r, u, pid, <<"q">>, 1)

AuthChessSolvedRequest ==
    \E r \in Slots, header \in Headers, pid \in {AnsweredId},
       u \in DOMAIN users \cup {"none"} :
        /\ RequireAuth(r, "submit_chess_puzzle_result", header, u)
        /\ u # "none" => SubmitChessPuzzleResult(r, u, pid, TRUE, 2)

AuthSkipRequest ==
    \E r \in Slots, header \in Headers, pid \in {AnsweredId},
       u \in DOMAIN users \cup {"none"} :
        /\ RequireAuth(r, "skip_playable", header, u)
        /\ u # "none" => SkipPlayable(r, u, pid)

AuthStatsRequest ==
    \E r \in Slots, header \in Headers,
       u \in DOMAIN users \cup {"none"} :
        /\ RequireAuth(r, "get_user_stats", header, u)
        /\ u # "none" => GetUserStats(r, u)

AuthSelectCategoriesRequest ==
    \E r \in Slots, header \in Headers, chosen \in CategoryChoices,
       u \in DOMAIN users \cup {"none"} :
        /\ RequireAuth(r, "select_categories", header, u)
        /\ u # "none" => SelectCategories(r, u, chosen)

AuthResetRequest ==
    \E r \in Slots, header \in Headers,
       u \in DOMAIN users \cup {"none"} :
        /\ RequireAuth(r, "reset_user_progress", header, u)
        /\ u # "none" => ResetUserProgress(r, u)

DevLoginRequest ==
    \E r \in Slots, u \in DOMAIN users, session_token \in DevTokens :
        DevLogin(r, u, session_token)

ExchangeSessionRequest ==
    \E r \in Slots, u \in DOMAIN users, session_token \in OAuthTokens :
        ExchangeSession(r, u, session_token)

LogoutRequest == \E r \in Slots, header \in Headers : Logout(r, header)

NextAuth ==
    \/ AuthFeedRequest
    \/ AuthAnswerRequest
    \/ AuthGuessAnswerRequest
    \/ AuthChessSolvedRequest
    \/ AuthSkipRequest
    \/ AuthStatsRequest
    \/ AuthSelectCategoriesRequest
    \/ AuthResetRequest
    \/ FindUserStep
    \/ UpdateUserStep
    \/ IncSkippedStep
    \/ SkipFindUserStep
    \/ ResetStatsStep
    \/ DevLoginRequest
    \/ ExchangeSessionRequest
    \/ LogoutRequest
    \/ Tick

\* Requests with an Authorization header, logins, logouts and the clock.
SpecAuth == InitFailing /\ [][NextAuth]_vars

\* --------------------------------------------------------------- C23
GuardedOps ==
    GradingOps \cup {"get_playables_feed", "skip_playable", "get_user_stats",
                     "select_categories", "reset_user_progress"}

\* The step is the arrival of a request at a guarded endpoint.
GuardedArrival ==
    \E r \in Slots :
        /\ Free(r)
        /\ req'[r].pc # "idle" \/ response'.op \in GuardedOps

\* no header, a token no session has, or a token whose sessions have expired
Rejectable(header) ==
    \/ header = NoHeader
    \/ \A session \in SessionsWith(header) : session.expires_at < now

\* C23: a request at an endpoint guarded by require_auth that comes without
\* Authorization header, with a token no session has or with a token whose
\* session has expired gets 401, and no user, Progress Record or session
\* changes.
C23_UnauthenticatedRejected ==
    [][(GuardedArrival /\ Rejectable(authorization')) =>
           /\ response'.status = 401
           /\ UNCHANGED <<users, progress, sessions, req>>]_vars

\* C23 witness: a request with the token of an expired session has been
\* rejected while the user holds a Progress Record.
C23_Witness ==
    /\ response.status = 401
    /\ response.op \in GuardedOps
    /\ SessionsWith(authorization) # {}
    /\ \A session \in SessionsWith(authorization) : session.expires_at < now
    /\ progress # EmptyBag

\* --------------------------------------------------------------- C24
PlayableOps == GradingOps \cup {"skip_playable"}

\* C24: a submit_answer, submit_guess_answer, submit_chess_puzzle_result
\* or skip_playable request whose playable_id is not in the store gets 404
\* and writes no Progress Record and no user counter; these requests get
\* 404 for no other reason.
C24_NotFoundUnchanged ==
    [][\A r \in Slots :
           /\ (/\ Free(r)
               /\ req'[r].pc # "idle"
               /\ req'[r].op \in PlayableOps) =>
                  req'[r].pid \in DOMAIN playables
           /\ (/\ Free(r)
               /\ response' # response
               /\ response'.op \in PlayableOps) =>
                  IF response'.pid \in DOMAIN playables
                  THEN response'.status # 404
                  ELSE /\ response'.status = 404
                       /\ UNCHANGED <<users, progress, req>>]_vars

\* C24 witness: a skip of a playable that is not in the store has been
\* answered 404 to a user who holds a Progress Record.
C24_Witness ==
    /\ response.op = "skip_playable"
    /\ response.status = 404
    /\ response.pid \notin DOMAIN playables
    /\ RecordsOf(response.user) # {}
    /\ users[response.user].total_played > 0

\* ------------------------------------------------ admin_update_playable
\* update_doc of admin_update_playable, the fields the model keeps
UpdateDoc(request) ==
    [type |-> request.type,
     category |-> request.category,
     correct_answer |-> request.correct_answer,
     alternate_answers |->
         IF \/ request.answer_type = "text_input"
            \/ request.type \in {"guess_the_x", "chess_mate_in_2"}
         THEN request.alternate_answers ELSE <<>>,
     hints |-> IF request.type = "guess_the_x" THEN request.hints ELSE <<>>]

\* PUT /admin/playables/{playable_id}
AdminUpdatePlayable(r, playable_id, request) ==
    /\ Free(r)
    /\ \/ /\ playable_id \notin DOMAIN playables
          /\ Respond("admin_update_playable", "admin", playable_id, 404, {},
                     [detail |-> "Playable not found"])
          /\ UNCHANGED playables
       \/ /\ playable_id \in DOMAIN playables
          /\ playables' = [playables EXCEPT ![playable_id] = UpdateDoc(request)]
          /\ Respond("admin_update_playable", "admin", playable_id, 200,
                     {"playables"}, [success |-> TRUE])
    /\ UNCHANGED <<users, progress, req, ever_recorded>>

\* the requests of the runs on updates: well-formed ones, and ones with a
\* category that does not exist, without hints, without question_text and
\* with a correct_answer that is not an option
UpdatePlayableRequests ==
    {TextRequest, GuessRequest,
     [TextRequest EXCEPT !.category = "NOPE"],
     [TextRequest EXCEPT !.question_text = FALSE],
     [GuessRequest EXCEPT !.hints = <<>>],
     [TextRequest EXCEPT !.answer_type = "mcq",
                         !.options = << <<"P", "a">>, <<"q">> >>,
                         !.correct_answer = <<>>]}

UpdatedIds == {"play_000000000001", "play_missing"}

AdminAddWriteRequest ==
    /\ \E r \in Slots, request \in UpdatePlayableRequests :
           AdminAddPlayable(r, request)
    /\ UNCHANGED sessions_and_categories

AdminUpdatePlayableRequest ==
    /\ \E r \in Slots, playable_id \in UpdatedIds \cup AddedIds,
          request \in UpdatePlayableRequests :
           AdminUpdatePlayable(r, playable_id, request)
    /\ UNCHANGED sessions_and_categories

NextAdminWrites ==
    \/ AdminAddWriteRequest
    \/ AdminUpdatePlayableRequest
    \/ AdminDeletePlayableRequest

\* The admin adds, updates and deletes playables.
SpecAdminWrites == InitFailing /\ [][NextAdminWrites]_vars

\* --------------------------------------------------------------- C25
\* a definition the validation of admin_add_playable has an error for
Malformed(request) == AddPlayableError(request) # ""

\* C25: an admin_add_playable or admin_update_playable request with a
\* malformed definition is rejected and leaves the playables unchanged.
C25_MalformedRejected ==
    [][\A r \in Slots, request \in UpdatePlayableRequests :
           (/\ Malformed(request)
            /\ \/ AdminAddPlayable(r, request)
               \/ \E playable_id \in UpdatedIds \cup AddedIds :
                      AdminUpdatePlayable(r, playable_id, request)) =>
               /\ response'.status \in {400, 404}
               /\ playables' = playables]_vars

\* ------------------------------------------------ admin_delete_category
\* DELETE /admin/categories/{category_id}, up to the find_one of the
\* category.  A category document is identified with its name.
AdminDeleteCategory(r, category) ==
    /\ Free(r)
    /\ \/ /\ category \notin category_docs
          /\ Respond("admin_delete_category", "admin", category, 404, {},
                     [detail |-> "Category not found"])
          /\ UNCHANGED req
       \/ /\ category \in category_docs
          /\ req' = [req EXCEPT ![r] =
                        Suspended("admin_delete_category", "admin", category,
                                  "count_playables", FALSE, FALSE, {},
                                  [none |-> TRUE])]
          /\ Silent
    /\ UNCHANGED <<users, progress, playables, ever_recorded,
                   sessions, now, category_docs, authorization>>

\* playable_count = count_documents({"category": category["name"]})
CountPlayables(r) ==
    /\ req[r].pc = "count_playables"
    /\ IF \E pid \in DOMAIN playables : playables[pid].category = req[r].pid
       THEN /\ Respond("admin_delete_category", "admin", req[r].pid, 400, {},
                       [detail |-> "Cannot delete category"])
            /\ req' = [req EXCEPT ![r] = IdleReq]
       ELSE /\ req' = [req EXCEPT ![r].pc = "delete_category"]
            /\ Silent
    /\ UNCHANGED <<users, progress, playables, ever_recorded,
                   sessions, now, category_docs, authorization>>

\* db.categories.delete_one({"category_id": category_id})
DeleteCategory(r) ==
    /\ req[r].pc = "delete_category"
    /\ category_docs' = category_docs \ {req[r].pid}
    /\ Respond("admin_delete_category", "admin", req[r].pid, 200,
               {"categories"}, [success |-> TRUE])
    /\ req' = [req EXCEPT ![r] = IdleReq]
    /\ UNCHANGED <<users, progress, playables, ever_recorded,
                   sessions, now, authorization>>

AdminDeleteCategoryRequest ==
    \E r \in Slots, category \in Categories : AdminDeleteCategory(r, category)

CountPlayablesStep == \E r \in Slots : CountPlayables(r)

DeleteCategoryStep == \E r \in Slots : DeleteCategory(r)

NextCategoryAdmin ==
    \/ AdminDeleteCategoryRequest
    \/ CountPlayablesStep
    \/ DeleteCategoryStep
    \/ AdminAddWriteRequest
    \/ AdminUpdatePlayableRequest
    \/ AdminDeletePlayableRequest

\* The admin deletes categories while playables are added, updated and
\* deleted; two requests can be in flight.
SpecCategoryAdmin == InitConcurrent /\ [][NextCategoryAdmin]_vars

\* --------------------------------------------------------------- C26
\* C26: no step removes a category that a stored playable references.
C26_ReferencedCategoryKept ==
    [][\A category \in category_docs \ category_docs' :
           \A pid \in DOMAIN playables :
               playables[pid].category # category]_vars

\* ------------------------------------------------------ the other resets
\* the email addresses a reset names: the users', and one nobody has
Emails == Users \cup {"nobody"}

\* delete_many of dev_reset_progress and admin_reset_user_progress, after
\* the find_one of the user by email
ResetProgressByEmail(r, op, email, status) ==
    /\ Free(r)
    /\ \/ /\ email \notin DOMAIN users
          /\ Respond(op, email, "none", status, {},
                     [message |-> "User not found"])
          /\ UNCHANGED <<progress, req>>
       \/ /\ email \in DOMAIN users
          /\ progress' = DeleteProgressOf(progress, email)
          /\ req' = [req EXCEPT ![r] =
                        Suspended(op, email, "none", "reset_stats",
                                  FALSE, FALSE, {"deleted"}, [none |-> TRUE])]
          /\ Silent
    /\ UNCHANGED <<users, playables, ever_recorded>>

\* POST /dev/reset-progress
DevResetProgress(r, email) ==
    ResetProgressByEmail(r, "dev_reset_progress", email, 200)

\* POST /admin/reset-user-progress
AdminResetUserProgress(r, email) ==
    ResetProgressByEmail(r, "admin_reset_user_progress", email, 404)

DevResetProgressRequest ==
    /\ \E r \in Slots, email \in Emails : DevResetProgress(r, email)
    /\ UNCHANGED sessions_and_categories

AdminResetUserProgressRequest ==
    /\ \E r \in Slots, email \in Emails : AdminResetUserProgress(r, email)
    /\ UNCHANGED sessions_and_categories

NextLedger ==
    \/ SubmitAnswerRequest
    \/ SubmitGuessAnswerRequest
    \/ SubmitChessPuzzleResultRequest
    \/ FindUserStep
    \/ UpdateUserStep
    \/ SkipPlayableRequest
    \/ IncSkippedStep
    \/ SkipFindUserStep
    \/ ResetUserProgressRequest
    \/ DevResetProgressRequest
    \/ AdminResetUserProgressRequest
    \/ ResetStatsStep
    \/ GetPlayablesFeedRequest

\* Every operation that writes the ledger, one request at a time.
SpecLedger == Init /\ [][NextLedger]_vars

\* --------------------------------------------------------------- C27
ResetOps ==
    {"reset_user_progress", "dev_reset_progress", "admin_reset_user_progress"}

\* every Progress Record is in the ledger after the step as often as before
LedgerGrows ==
    \A rec \in BagToSet(progress) :
        CopiesIn(rec, progress') >= CopiesIn(rec, progress)

C28_ChessRecording ==
    [][\A r \in Slots :
          /\ \A u \in DOMAIN users, pid \in DOMAIN playables,
                solved \in BOOLEAN, moves_used \in MovesUsed :
                 (/\ playables[pid].type = "chess_mate_in_2"
                  /\ SubmitChessPuzzleResult(r, u, pid, solved, moves_used)) =>
                     /\ progress' =
                            InsertProgress(progress,
                                [user_id |-> u, playable_id |-> pid,
                                 answered |-> TRUE, correct |-> solved,
                                 skipped |-> FALSE, hints_used |-> 0,
                                 moves_used |-> moves_used])
                     /\ req'[r].pc = "find_user"
                     /\ req'[r].is_correct = solved
                     /\ req'[r].body.moves_used = moves_used
                     /\ users' = users
          /\ (/\ req[r].op = "submit_chess_puzzle_result"
              /\ req[r].pc = "update_user"
              /\ req'[r].pc = "idle") =>
                 LET old == users[req[r].user]
                     new == users'[req[r].user]
                     solved == req[r].is_correct
                 IN /\ new.total_played = old.total_played + 1
                    /\ new.correct_answers =
                           old.correct_answers + (IF solved THEN 1 ELSE 0)
                    /\ new.current_streak =
                           IF solved THEN old.current_streak + 1 ELSE 0
                    /\ new.best_streak =
                           IF solved /\ old.current_streak + 1 > old.best_streak
                           THEN old.current_streak + 1 ELSE old.best_streak
                    /\ progress' = progress
                    /\ response'.status = 200
                    /\ response'.body.correct = solved
                    /\ response'.body.stats = Stats(new)]_vars

\* C28 witness: a chess puzzle reported solved in one move has been
\* recorded as correct and has raised the streak.
C28_Witness ==
    /\ IsGradingResponse
    /\ response.op = "submit_chess_puzzle_result"
    /\ response.body.correct
    /\ response.body.extra.moves_used = 1
    /\ response.body.stats.current_streak >= 1
    /\ \E rec \in RecordsOf(response.user) :
           /\ rec.playable_id = response.pid
           /\ rec.correct
           /\ rec.moves_used = 1

\* --------------------------------------------------------------- C29
\* C29: the request at a guarded endpoint that follows a completed logout
\* and presents the token of that logout is rejected with 401, whatever
\* logins came before the logout.
C29_LogoutInvalidates ==
    [][(/\ response.op = "logout"
        /\ response.status = 200
        /\ GuardedArrival
        /\ authorization' = response.body.session_token) =>
           response'.status = 401]_vars

\* --------------------------------------------------------------- C30
\* the playables a Progress Record of user u references that are not stored
Orphaned(u) == PlayedIds(u) \ DOMAIN playables

\* C30: admin_delete_playable removes the playable document and nothing
\* else: Progress Records and user documents are unchanged; a later feed of
\* a user holding records of deleted playables is answered 200 and holds
\* stored playables only.
C30_DeletionDoesNotCascade ==
    [][\A r \in Slots :
          /\ \A playable_id \in DOMAIN playables :
                 AdminDeletePlayable(r, playable_id) =>
                     /\ DOMAIN playables' = DOMAIN playables \ {playable_id}
                     /\ \A pid \in DOMAIN playables' :
                            playables'[pid] = playables[pid]
                     /\ progress' = progress
                     /\ users' = users
                     /\ response'.status = 200
          /\ \A u \in DOMAIN users, limit \in Limits :
                 (Orphaned(u) # {} /\ GetPlayablesFeed(r, u, limit)) =>
                     /\ response'.status = 200
                     /\ SeqRange(response'.body.items) \subseteq DOMAIN playables
                     /\ SeqRange(response'.body.items) \cap Orphaned(u) = {}
                     /\ progress' = progress]_vars

\* C30 witness: a user whose skipped playable was deleted afterwards has
\* received a feed with items.
C30_Witness ==
    /\ IsFeedResponse
    /\ Orphaned(response.user) # {}
    /\ response.body.items # <<>>
    /\ users[response.user].skipped = 1

\* ------------------------------------------------------------ two users
\* Two users and two request slots over the smaller store.
InitTwoUsers ==
    /\ users = [u \in FeedUsers |-> NewUser]
    /\ progress = EmptyBag
    /\ playables = SmallStore
    /\ req = [r \in {1, 2} |-> IdleReq]
    /\ response = Unobserved
    /\ ever_recorded = {}
    /\ sessions = FirstSessions(FeedUsers)
    /\ now = 0
    /\ category_docs = Categories
    /\ authorization = NoHeader

\* Each user has one connection: the requests of one user follow one another,
\* those of different users interleave.  A user starts a grading or a skip
\* while holding fewer than MaxRecordsEach records.
SlotOf(u) == IF u = "u1" THEN 1 ELSE 2
MayStart(u) == RecordCount(u) < MaxRecordsEach

AnswerOfUserRequest ==
    /\ \E u \in DOMAIN users, answer \in FewSubmissions :
           MayStart(u) /\ SubmitAnswer(SlotOf(u), u, AnsweredId, answer)
    /\ UNCHANGED sessions_and_categories

GuessAnswerOfUserRequest ==
    /\ \E u \in DOMAIN users, answer \in FewSubmissions,
          hint_number \in FewHintNumbers :
           MayStart(u) /\ SubmitGuessAnswer(SlotOf(u), u, GuessedId, answer,
                                             hint_number)
    /\ UNCHANGED sessions_and_categories

ChessSolvedOfUserRequest ==
    /\ \E u \in DOMAIN users, solved \in BOOLEAN :
           MayStart(u) /\ SubmitChessPuzzleResult(SlotOf(u), u, AnsweredId, solved, 2)
    /\ UNCHANGED sessions_and_categories

SkipOfUserRequest ==
    /\ \E u \in DOMAIN users :
           MayStart(u) /\ SkipPlayable(SlotOf(u), u, GuessedId)
    /\ UNCHANGED sessions_and_categories

ResetOfUserRequest ==
    /\ \E u \in DOMAIN users : ResetUserProgress(SlotOf(u), u)
    /\ UNCHANGED sessions_and_categories

SelectCategoriesOfUserRequest ==
    /\ \E u \in DOMAIN users, categories \in CategoryChoices :
           SelectCategories(SlotOf(u), u, categories)
    /\ UNCHANGED sessions_and_categories

NextTwoUsers ==
    \/ AnswerOfUserRequest
    \/ GuessAnswerOfUserRequest
    \/ ChessSolvedOfUserRequest
    \/ FindUserStep
    \/ UpdateUserStep
    \/ SkipOfUserRequest
    \/ IncSkippedStep
    \/ SkipFindUserStep
    \/ ResetOfUserRequest
    \/ ResetStatsStep
    \/ SelectCategoriesOfUserRequest

\* The requests of two users, interleaved.
SpecTwoUsers == InitTwoUsers /\ [][NextTwoUsers]_vars

\* What db.user_progress holds of user v.
LedgerOf(v) == [rec \in RecordsOf(v) |-> progress[rec]]

\* A step of an operation of user u: the arrival of one of the six requests
\* of u, or the next store access of the request of u in flight.
StepOf(u) ==
    \/ \E answer \in FewSubmissions :
           SubmitAnswer(SlotOf(u), u, AnsweredId, answer)
    \/ \E answer \in FewSubmissions, hint_number \in FewHintNumbers :
           SubmitGuessAnswer(SlotOf(u), u, GuessedId, answer, hint_number)
    \/ \E solved \in BOOLEAN :
           SubmitChessPuzzleResult(SlotOf(u), u, AnsweredId, solved, 2)
    \/ SkipPlayable(SlotOf(u), u, GuessedId)
    \/ \E categories \in CategoryChoices :
           SelectCategories(SlotOf(u), u, categories)
    \/ ResetUserProgress(SlotOf(u), u)
    \/ /\ InFlight(SlotOf(u))
       /\ req[SlotOf(u)].user = u
       /\ \/ FindUser(SlotOf(u))
          \/ UpdateUser(SlotOf(u))
          \/ IncSkipped(SlotOf(u))
          \/ SkipFindUser(SlotOf(u))
          \/ ResetStats(SlotOf(u))

\* C31: a step of an answer, guess-answer, chess-solved, skip,
\* category-selection or self-reset operation of user u leaves the user
\* document (counters, onboarding state) and the Progress Records of every
\* other user v as they were, whatever the other user has in flight.
C31_PerUserIndependence ==
    [][\A u \in DOMAIN users : StepOf(u) =>
          \A v \in DOMAIN users \ {u} :
              /\ users'[v] = users[v]
              /\ [rec \in {x \in BagToSet(progress') : x.user_id = v}
                      |-> progress'[rec]] = LedgerOf(v)]_vars

\* u1 has reset its progress while u2 holds a record, counters and a
\* grading in flight.
C31_Witness ==
    /\ \E pid \in DOMAIN playables : <<"u1", pid>> \in ever_recorded
    /\ RecordsOf("u1") = {}
    /\ RecordsOf("u2") # {}
    /\ users["u1"].total_played = 0
    /\ users["u2"].onboarding_complete
    /\ InFlight(2)

\* ---------------------------------------------------------------- C32
\* The number of copies of the records in S that db.user_progress holds.
Copies(S) ==
    LET RECURSIVE Sum(_)
        Sum(T) == IF T = {} THEN 0
                  ELSE LET x == CHOOSE y \in T : TRUE
                       IN CopiesIn(x, progress) + Sum(T \ {x})
    IN Sum(S)

AnsweredCount(u) == Copies({rec \in RecordsOf(u) : rec.answered})
CorrectCount(u) == Copies({rec \in RecordsOf(u) : rec.correct})

\* C32: in a state with no request in flight, total_played of every user is
\* the number of the user's Progress Records with answered = true and
\* correct_answers the number of those with correct = true.
C32_LedgerCounterConsistency ==
    (\A r \in Slots : Free(r)) =>
        \A u \in DOMAIN users :
            /\ users[u].total_played = AnsweredCount(u)
            /\ users[u].correct_answers = CorrectCount(u)

\* ---------------------------------------------------------------- C33
GetUserStatsRequest ==
    /\ \E r \in Slots, u \in DOMAIN users : GetUserStats(r, u)
    /\ UNCHANGED sessions_and_categories

NextReset ==
    \/ SubmitAnswerRequest
    \/ SubmitGuessAnswerRequest
    \/ SubmitChessPuzzleResultRequest
    \/ FindUserStep
    \/ UpdateUserStep
    \/ SkipPlayableRequest
    \/ IncSkippedStep
    \/ SkipFindUserStep
    \/ ResetUserProgressRequest
    \/ DevResetProgressRequest
    \/ AdminResetUserProgressRequest
    \/ ResetStatsStep
    \/ GetPlayablesFeedRequest
    \/ GetUserStatsRequest

\* Gradings, skips, the three resets, the feed and the statistics, one
\* request at a time.
SpecReset == Init /\ [][NextReset]_vars

\* The last request completed is a reset of the progress of user u.
ResetCompleted(u) ==
    /\ response.op \in ResetOps
    /\ response.status = 200
    /\ response.user = u
    /\ \A r \in Slots : Free(r)

\* C33: when one of the three resets has completed for user u, u has no
\* Progress Record and the four counters are 0; a get_user_stats call made
\* then reports total_played, correct_answers, current_streak, best_streak
\* and skipped all 0, and a feed requested then is the feed of a user who
\* never played: it starts with the head of the curated list.
C33_ResetToInitial ==
    [][\A u \in DOMAIN users : ResetCompleted(u) =>
          /\ RecordsOf(u) = {}
          /\ Stats(users[u]) = NoStats
          /\ \A r \in Slots : GetUserStats(r, u) =>
                 response'.body = [stats |-> NoStats, skipped |-> 0]
          /\ \A r \in Slots, limit \in Limits : GetPlayablesFeed(r, u, limit) =>
                 /\ response'.body.items \in FeedResults(playables, {}, limit)
                 /\ limit >= 1 /\ CURATED_PLAYABLE_IDS[1] \in DOMAIN playables
                        => response'.body.items[1] = CURATED_PLAYABLE_IDS[1]]_vars

\* The statistics were asked of a user who had skipped and played and whose
\* progress was reset since: the stored skip counter is not 0, the one
\* reported is.
C33_Witness ==
    /\ response.op = "get_user_stats"
    /\ response.user = "u1"
    /\ response.body.skipped = 0
    /\ response.body.stats = NoStats
    /\ users["u1"].skipped >= 1
    /\ RecordsOf("u1") = {}
    /\ \E pid \in DOMAIN playables : <<"u1", pid>> \in ever_recorded

\* ---------------------------------------------------------------- C34
\* C34: every Progress Record with answered = true and correct = false of a
\* guess_the_x playable has hints_used >= the number of hints of the
\* playable, whichever answer endpoint wrote it.
C34_HintsCannotBeBypassed ==
    \A rec \in BagToSet(progress) :
        /\ rec.playable_id \in DOMAIN playables
        /\ playables[rec.playable_id].type = "guess_the_x"
        /\ rec.answered
        /\ ~rec.correct
        => rec.hints_used >= Len(playables[rec.playable_id].hints)

\* ---------------------------------------------------------------- C35
\* The step answered 400 and wrote nothing: no Progress Record, no counter,
\* no request left suspended.
RejectedWithoutEffect ==
    /\ response'.status = 400
    /\ progress' = progress
    /\ users' = users
    /\ req' = req

\* C35: submit_guess_answer on a stored playable whose type is not
\* guess_the_x, and submit_chess_puzzle_result on a stored playable whose
\* type is not chess_mate_in_2, return 400, write no Progress Record and
\* change no user counter.
C35_OtherKindsRejected ==
    [][\A r \in Slots, u \in DOMAIN users, pid \in DOMAIN playables :
          /\ \A answer \in Submissions, hint_number \in HintNumbers :
                 /\ playables[pid].type # "guess_the_x"
                 /\ SubmitGuessAnswer(r, u, pid, answer, hint_number)
                 => RejectedWithoutEffect
          /\ \A solved \in BOOLEAN, moves_used \in MovesUsed :
                 /\ playables[pid].type # "chess_mate_in_2"
                 /\ SubmitChessPuzzleResult(r, u, pid, solved, moves_used)
                 => RejectedWithoutEffect]_vars

\* submit_chess_puzzle_result was refused for the guess_the_x playable of a
\* user who has played before.
C35_Witness ==
    /\ response.op = "submit_chess_puzzle_result"
    /\ response.status = 400
    /\ response.pid = GuessedId
    /\ users[response.user].total_played >= 1
    /\ RecordsOf(response.user) # {}

\* ---------------------------------------------------------------- C36
\* C36: in one response of get_playables_feed no playable_id occurs twice
\* and every curated item precedes every item that is not curated: a curated
\* id is returned by the curated phase only, which comes first.
C36_FeedShape ==
    IsFeedResponse =>
        LET items == response.body.items
        IN /\ \A i, j \in 1..Len(items) : i # j => items[i] # items[j]
           /\ \A i, j \in 1..Len(items) :
                  i < j /\ items[j] \in CuratedSet => items[i] \in CuratedSet

\* A feed of a curated playable followed by one that is not curated.
C36_Witness ==
    /\ IsFeedResponse
    /\ Len(response.body.items) >= 2
    /\ response.body.items[1] \in CuratedSet
    /\ response.body.items[Len(response.body.items)] \notin CuratedSet

\* ======================================================================
\* Category names
\* ======================================================================
\* In these runs a category document is kept with its category_id and its
\* name, and a name is a sequence of characters.
CategoryNames == { <<"q">>, <<"Q">>, <<"q", "?">> }
Icons == {"flask", "no-such-icon"}
VALID_IONICONS == {"flask", "help-circle"}

\* is_valid_icon (the -outline and -sharp variants are not drawn)
IsValidIcon(icon_name) == icon_name \in VALID_IONICONS

\* re.match of "^" + pattern + "$" with option i against text, for patterns
\* of letters and the quantifier "?" (the preceding character, once or not
\* at all).  The name is put in the pattern as it is, not escaped.
RECURSIVE RegexMatch(_, _)
RegexMatch(pattern, text) ==
    IF pattern = <<>> THEN text = <<>>
    ELSE IF Len(pattern) >= 2 /\ pattern[2] = "?"
         THEN \/ RegexMatch(Tail(Tail(pattern)), text)
              \/ /\ text # <<>>
                 /\ LowerChar(text[1]) = LowerChar(pattern[1])
                 /\ RegexMatch(Tail(Tail(pattern)), Tail(text))
         ELSE /\ text # <<>>
              /\ LowerChar(text[1]) = LowerChar(pattern[1])
              /\ RegexMatch(Tail(pattern), Tail(text))

\* find_one({"name": {"$regex": "^name$", "$options": "i"}}) finds a document
ExistingCategory(name) ==
    \E doc \in category_docs : RegexMatch(name, doc.name)

\* category_doc, with the category_id uuid4 gives: one no document has
CategoryDoc(name) ==
    [category_id |-> Cardinality(category_docs) + 1, name |-> name]

CategoriesBelowBound == Cardinality(category_docs) < MaxCategories

\* playables whose categories differ in case only
NamedStore ==
    [pid \in DOMAIN SmallStore |->
        [SmallStore[pid] EXCEPT
            !.category = IF pid = GuessedId THEN <<"q">> ELSE <<"Q">>]]

\* the lists db.playables.distinct("category") can return
DistinctCategories ==
    LET S == {playables[pid].category : pid \in DOMAIN playables}
    IN {list \in UNION {[1..n -> S] : n \in 0..Cardinality(S)} :
            /\ Len(list) = Cardinality(S)
            /\ \A i, j \in 1..Len(list) : i # j => list[i] # list[j]}

InitCategoryNames ==
    /\ users = [u \in Users |-> NewUser]
    /\ progress = EmptyBag
    /\ playables = NamedStore
    /\ req = [r \in {1, 2} |-> IdleReq]
    /\ response = NoResponse
    /\ ever_recorded = {}
    /\ sessions = FirstSessions(Users)
    /\ now = 0
    /\ category_docs = {}
    /\ authorization = NoHeader

\* POST /admin/categories, up to the find_one of the name
AdminAddCategory(r, name, icon) ==
    /\ Free(r)
    /\ CategoriesBelowBound
    /\ \/ /\ ~IsValidIcon(icon)
          /\ Respond("admin_add_category", "admin", "none", 400, {},
                     [detail |-> "Invalid icon", name |-> name])
          /\ UNCHANGED req
       \/ /\ IsValidIcon(icon)
          /\ ExistingCategory(name)
          /\ Respond("admin_add_category", "admin", "none", 400, {},
                     [detail |-> "already exists", name |-> name])
          /\ UNCHANGED req
       \/ /\ IsValidIcon(icon)
          /\ ~ExistingCategory(name)
          /\ req' = [req EXCEPT ![r] =
                        Suspended("admin_add_category", "admin", "none",
                                  "insert_category", FALSE, FALSE, {},
                                  [name |-> name])]
          /\ Silent
    /\ UNCHANGED <<users, progress, playables, ever_recorded,
                   sessions, now, category_docs, authorization>>

\* db.categories.insert_one(category_doc) of admin_add_category
InsertCategory(r) ==
    /\ req[r].pc = "insert_category"
    /\ category_docs' = category_docs \cup {CategoryDoc(req[r].body.name)}
    /\ Respond("admin_add_category", "admin", "none", 200, {"categories"},
               [success |-> TRUE, name |-> req[r].body.name])
    /\ req' = [req EXCEPT ![r] = IdleReq]
    /\ UNCHANGED <<users, progress, playables, ever_recorded,
                   sessions, now, authorization>>

\* POST /admin/categories/init, up to distinct("category")
AdminInitCategories(r) ==
    /\ Free(r)
    /\ CategoriesBelowBound
    /\ \E distinct_categories \in DistinctCategories :
           req' = [req EXCEPT ![r] =
                      Suspended("admin_init_categories", "admin", "none",
                                "find_category", FALSE, FALSE, {},
                                [remaining |-> distinct_categories])]
    /\ Silent
    /\ UNCHANGED <<users, progress, playables, ever_recorded,
                   sessions, now, category_docs, authorization>>

\* One turn of the loop up to its find_one, or the response after the loop.
FindCategory(r) ==
    /\ req[r].pc = "find_category"
    /\ LET remaining == req[r].body.remaining
       IN IF remaining = <<>>
          THEN /\ Respond("admin_init_categories", "admin", "none", 200,
                          req[r].wrote, [success |-> TRUE])
               /\ req' = [req EXCEPT ![r] = IdleReq]
          ELSE /\ Silent
               /\ IF ExistingCategory(Head(remaining))
                  THEN req' = [req EXCEPT ![r].body.remaining = Tail(remaining)]
                  ELSE req' = [req EXCEPT ![r].pc = "insert_found"]
    /\ UNCHANGED <<users, progress, playables, ever_recorded,
                   sessions, now, category_docs, authorization>>

\* db.categories.insert_one(category_doc) of the loop
InsertFoundCategory(r) ==
    /\ req[r].pc = "insert_found"
    /\ category_docs' =
           category_docs \cup {CategoryDoc(Head(req[r].body.remaining))}
    /\ req' = [req EXCEPT ![r].pc = "find_category",
                          ![r].wrote = @ \cup {"categories"},
                          ![r].body.remaining = Tail(@)]
    /\ Silent
    /\ UNCHANGED <<users, progress, playables, ever_recorded,
                   sessions, now, authorization>>

AdminAddCategoryRequest ==
    \E r \in Slots, name \in CategoryNames, icon \in Icons :
        AdminAddCategory(r, name, icon)

InsertCategoryStep == \E r \in Slots : InsertCategory(r)

AdminInitCategoriesRequest == \E r \in Slots : AdminInitCategories(r)

FindCategoryStep == \E r \in Slots : FindCategory(r)

InsertFoundCategoryStep == \E r \in Slots : InsertFoundCategory(r)

NextCategoryNames ==
    \/ AdminAddCategoryRequest
    \/ InsertCategoryStep
    \/ AdminInitCategoriesRequest
    \/ FindCategoryStep
    \/ InsertFoundCategoryStep

\* Two admin requests on categories in flight.
SpecCategoryNames == InitCategoryNames /\ [][NextCategoryNames]_vars

\* ---------------------------------------------------------------- C37
\* C37: no two stored categories have names that are equal ignoring case,
\* after any sequence or interleaving of admin_add_category and
\* admin_init_categories calls.
C37_NamesUniqueIgnoringCase ==
    \A c, d \in category_docs :
        c # d => Lower(c.name) # Lower(d.name)

====
